---- MODULE Spec2Model ----
(***************************************************************************)
(* Device emulation engine of testlib: the charger connector/transaction   *)
(* state machine (testlib/emulators/charger_emulator.py) and the emulator  *)
(* life cycle start()/stop()/_run_loop shared by the charger and the       *)
(* inverter (testlib/emulators/inverter_emulator.py).                      *)
(*                                                                         *)
(* The specifications share the variables:                                 *)
(*   Spec      the charger's transactions: start_transaction and           *)
(*             stop_transaction called from a caller's thread, the two     *)
(*             threading.Timer callbacks and the ticks of the loop thread, *)
(*             each handler taken as one step.                             *)
(*   SpecTick  the same handlers with one tick of the loop thread taken    *)
(*             statement by statement, so that the caller's and the        *)
(*             timers' threads interleave with it.                         *)
(*   SpecLife  start(), stop() and the loop threads they create, with the  *)
(*             body of a tick reduced to "delivers its payload" or         *)
(*             "raises".  SpecLifeFair adds the scheduler's fairness.      *)
(*   SpecCall  the handlers of Spec together with what each call gives    *)
(*             back: the payloads it hands to on_data and its return       *)
(*             value or exception.                                         *)
(*   SpecFleet chargers that differ only in tick_interval_ms, ticking      *)
(*             over the same charging session.                             *)
(*   SpecCurve the charging curve of _update_transactions as a function of *)
(*             the elapsed minutes.                                        *)
(*   SpecInverter  the inverter's _tick and update_tick_interval over a    *)
(*             calendar counted in minutes of a 365-day year.              *)
(*   SpecCalendar  an inverter without fault injection ticking from the    *)
(*             last hour of solar output until after the next midnight.    *)
(*   SpecFault the inverter's fault scheduler, with the loop thread        *)
(*             ticking until every fault that started is over.             *)
(*   SpecStatus  get_status taken step by step in one thread while the     *)
(*             other threads call, fire and tick.                          *)
(*   SpecResources  the ResourceManager (testlib/state_manager.py) with     *)
(*             the adapters of the tests: register_adapter, create, read,  *)
(*             update, delete, rollback and clear_resources.               *)
(*                                                                         *)
(* Units.  Wall-clock time is counted in whole seconds (the timers' delays *)
(* are 3 s and 2 s).  power_factor is kept as an integer number of         *)
(* 1/PowerScale, current_power in units of max_power/PowerScale watts and  *)
(* energy in units of (max_power/PowerScale) W x 1 s, so that every value  *)
(* the code computes for a whole number of elapsed minutes is exact.       *)
(***************************************************************************)
EXTENDS Integers, Sequences, FiniteSets, Bags, TLC

\* ------------------------------------------------------------ bounds
NumConnectors == 1      \* options["connectors"] of the modelled charger
MaxTx == 3              \* start_transaction calls that succeed (Spec)
MaxTimers == 2          \* threading.Timer objects pending at one time
MaxTicks == 1           \* ticks the loop thread runs (Spec)
MaxMeterStart == 1      \* meter_start arguments are 0..MaxMeterStart
MaxTickTx == 1          \* start_transaction calls that succeed (SpecTick)
MaxTickTicks == 2       \* ticks the loop thread begins (SpecTick)
MaxCallTx == 2          \* start_transaction calls that succeed (SpecCall)
MaxCallTicks == 2       \* ticks the loop thread runs (SpecCall)
FleetSize == 2          \* chargers compared with one another (SpecFleet)
MaxFleetTicks == 4      \* ticks each charger of the fleet runs (SpecFleet)
MaxElapsed == 100       \* elapsed minutes are 0..MaxElapsed (SpecCurve)
MaxStatusTx == 1        \* start_transaction calls that succeed (SpecStatus)
MaxStatusTicks == 1     \* ticks the loop thread runs (SpecStatus)
MaxStatusCalls == 2     \* get_status calls (SpecStatus)
MaxCalendarTicks == 76  \* ticks of an evening and a night (SpecCalendar)
MaxFaultTicks == 4      \* ticks that may start a fault (SpecFault)
MaxInverterTicks == 3   \* ticks of the inverter (SpecInverter)
MaxStarts == 2          \* start() calls that create a thread (SpecLife)
MaxSink == 3            \* the sink log keeps the first MaxSink payloads (SpecLife)
MaxResources == 2       \* resources created through the ResourceManager (SpecResources)
MaxForwards == 1        \* read, update and delete calls of the ResourceManager

\* ------------------------------------------------------------ program constants
PreparationDelay == 3   \* seconds, threading.Timer(3.0, _start_charging)
FinishingDelay == 2     \* seconds, threading.Timer(2.0, _finish_transaction)
tick_interval_s == 5    \* options["tick_interval_ms"] = 5000, in seconds
max_power == 22000      \* options["max_power"], watts
PowerScale == 600       \* denominator of the integer power factor
initial_tick_interval_ms == 1000    \* options["initial_tick_interval_ms"] of the inverter
mean_fault_interval == 7            \* options["mean_fault_interval"], days
fault_duration_min == 10            \* options["fault_duration_min"], minutes
fault_duration_max == 60            \* options["fault_duration_max"], minutes
peak_output == 5000                 \* watts, in _calculate_solar_power
NoneVal == 0 - 1        \* Python's None in a numeric field

\* the elapsed wall-clock minutes a tick may read for a transaction
ElapsedMinutes == {0, 60}

\* values of options["tick_interval_ms"], in seconds: 1000, 5000 (the default), 300000
TickIntervals == {1, tick_interval_s, 300}

Connectors == 1 .. NumConnectors

VARIABLES
    connectors,             \* self.connectors: connector id -> status
    active_transactions,    \* self.active_transactions, in insertion order; id = index
    energy_delivered,       \* self.energy_delivered: connector id -> cumulative energy
    timers,                 \* pending threading.Timer objects: a bag of [fn, tx, left]
    tick,                   \* the loop thread inside _tick: pc, dict iterator, locals
    nticks,                 \* ticks begun so far
    hist,                   \* per transaction: how its connector's statuses went
    emitted,                \* payloads the last call or timer callback gave to on_data
    ret,                    \* the last call of the caller's thread and how it ended
    tick_emitted,           \* payloads the current (or last) tick has given to on_data
    fleet,                  \* chargers that differ in options["tick_interval_ms"] only
    curve,                  \* one evaluation of the charging curve: locals of the tick
    inverter,               \* the fields of an InverterEmulator
    reader,                 \* a thread inside get_status: pc, dict iterator, the dict built
    manager,                \* a ResourceManager, its adapters and its last call
    running,                \* self.running
    thread,                 \* self.thread: id of the last thread created, 0 for None
    loops,                  \* the loop threads created so far: id -> [pc, late]
    caller,                 \* position of the calling thread inside start() or stop()
    device,                 \* "charger" or "inverter"
    sink,                   \* the first payloads delivered to options["on_data"], in order
    log,                    \* the last message start() or stop() gave to options["logger"]
    timed_out               \* whether the last join(timeout=1) returned with the thread alive

outVars == <<emitted, ret, tick_emitted>>
otherVars == <<fleet, curve, inverter, reader, manager>>
txVars == <<connectors, active_transactions, energy_delivered, timers, tick, nticks, hist,
            outVars, otherVars>>
lifeVars == <<running, thread, loops, caller, device, sink, log, timed_out>>
vars == <<txVars, lifeVars>>

Max(a, b) == IF a >= b THEN a ELSE b

\* ------------------------------------------------------------ history of a connector
\* The statuses a connector is to take during one transaction.
ExpectedSequence == <<"Available", "Preparing", "Charging", "Finishing", "Available">>

\* hist[i] follows the connector of transaction i from the transaction's start until
\* the transaction is Completed: n statuses of ExpectedSequence have been taken in
\* order (ok), or some status was skipped or taken out of order (not ok).
\* Connector c takes status s: every transaction on c that has not been Completed
\* yet records it (a write of the status the connector already has records nothing).
ObserveOne(h, s) ==
    IF h.done \/ ~h.ok \/ s = ExpectedSequence[h.n] THEN h
    ELSE IF h.n < Len(ExpectedSequence) /\ s = ExpectedSequence[h.n + 1]
    THEN [h EXCEPT !.n = @ + 1]
    ELSE [h EXCEPT !.ok = FALSE]

Observe(h, txs, c, s) ==
    [i \in DOMAIN h |-> IF txs[i].connector_id = c THEN ObserveOne(h[i], s) ELSE h[i]]

\* ------------------------------------------------------------ Init
InitConnectors == [c \in Connectors |-> "Available"]

\* no thread is inside get_status and none has returned from it
NoStatusCall ==
    [pc |-> "idle", pos |-> 0, used |-> 0, calls |-> 0, clean |-> TRUE, result |-> "none",
     snapshot |-> <<>>, returned |-> <<>>]

\* ------------------------------------------------------------ a ResourceManager after
\* construction
\* a call of the ResourceManager and what it gave back: the data it was given, the
\* exception it raised ("" for none), the id it was given or returned, the data or the
\* truth value it returned, and the failures a rollback collected
NoId == [type |-> "", n |-> 0]

ManagerReturned(op, resource_type, adapter_name, given, raised, id, data, ok, errors) ==
    [op |-> op, resource_type |-> resource_type, adapter |-> adapter_name,
     given |-> given, raised |-> raised, id |-> id, data |-> data, ok |-> ok,
     errors |-> errors]

NoManagerCall == ManagerReturned("", "", "", "", "", NoId, "", FALSE, <<>>)

\* __init__ of ResourceManager: no resource tracked, no adapter registered.  calls
\* are the calls the last operation made on adapters, created every entry ever tracked,
\* forwards the number of read, update and delete calls so far.
NewResourceManager ==
    [resources |-> <<>>, adapters |-> <<>>, calls |-> <<>>, ret |-> NoManagerCall,
     created |-> <<>>, forwards |-> 0]

TxInit ==
    /\ connectors = InitConnectors
    /\ active_transactions = <<>>
    /\ energy_delivered = <<>>
    /\ timers = EmptyBag
    /\ tick = [pc |-> "sleep", pos |-> 0, used |-> 0, pf |-> 0]
    /\ nticks = 0
    /\ hist = <<>>
    /\ emitted = <<>>
    /\ ret = [op |-> "none", arg |-> 0, meter_start |-> 0, result |-> "none", id |-> 0]
    /\ tick_emitted = <<>>
    /\ reader = NoStatusCall
    /\ manager = NewResourceManager

\* the state __init__ leaves, of a charger or of an inverter
Constructed(d) ==
    /\ running = FALSE
    /\ thread = 0
    /\ loops = <<>>
    /\ caller = "idle"
    /\ device = d
    /\ sink = <<>>
    /\ log = "none"
    /\ timed_out = FALSE

\* no fleet of chargers and no inverter has been constructed
NoFleet == fleet = <<>>
NoCurve == curve = <<>>
NoInverter == inverter = <<>>

OtherInit == NoFleet /\ NoCurve /\ NoInverter

Init == TxInit /\ Constructed("charger") /\ OtherInit

\* ------------------------------------------------------------ timers
Timer(fn, transaction_id, delay) == [fn |-> fn, tx |-> transaction_id, left |-> delay]

Schedule(t) == timers (+) SetToBag({t})

Cancel(t) == timers (-) SetToBag({t})

Due(fn) == {t \in BagToSet(timers) : t.fn = fn /\ t.left = 0}

\* One second of wall-clock time passes; a timer that is due fires first.
AdvanceTime ==
    /\ timers # EmptyBag
    /\ \A t \in BagToSet(timers) : t.left > 0
    /\ timers' = [u \in {[t EXCEPT !.left = @ - 1] : t \in BagToSet(timers)} |->
                     timers[[u EXCEPT !.left = @ + 1]]]
    /\ UNCHANGED <<connectors, active_transactions, energy_delivered, tick, nticks, hist>>
    /\ UNCHANGED lifeVars

\* ------------------------------------------------------------ payloads and results
\* the dict _send_status_notification builds for a connector
StatusNotification(connector_id, status) ==
    [messageType |-> "StatusNotification", connectorId |-> connector_id, status |-> status]

TransactionStarted(transaction_id, connector_id, meter_start) ==
    [messageType |-> "TransactionStarted", transactionId |-> transaction_id,
     connectorId |-> connector_id, meterStart |-> meter_start]

TransactionStopped(transaction_id, transaction) ==
    [messageType |-> "TransactionStopped", transactionId |-> transaction_id,
     connectorId |-> transaction.connector_id, meterStop |-> transaction.meter_stop,
     energyDelivered |-> transaction.energy_delivered]

\* the transaction and connector a MeterValues payload of _send_meter_values names
MeterValues(transaction_id) ==
    [messageType |-> "MeterValues", transactionId |-> transaction_id,
     connectorId |-> active_transactions[transaction_id].connector_id]

\* how a call ended: op is the method, arg its connector_id or transaction_id,
\* result "ValueError" (raised), "id" (returned the id in field id), "True" or "False"
Returned(op, arg, meter_start, result, id) ==
    [op |-> op, arg |-> arg, meter_start |-> meter_start, result |-> result, id |-> id]

\* the last step was not a call of the caller's thread
NoCall == Returned("none", 0, 0, "none", 0)

\* a step of the loop thread or the passing of time: no call, no callback
NoHandler == emitted' = <<>> /\ ret' = NoCall

\* ------------------------------------------------------------ start_transaction
NewTransaction(connector_id, meter_start) ==
    [connector_id |-> connector_id, meter_start |-> meter_start, meter_stop |-> NoneVal,
     status |-> "Active", energy_delivered |-> 0, current_power |-> 0]

\* a test that only looks at the range of connector_id
StartTransactionRaisesOutOfRange(connector_id) == connector_id \notin DOMAIN connectors

\* the two tests of start_transaction that raise ValueError
StartTransactionRaises(connector_id) ==
    IF connector_id \notin DOMAIN connectors THEN TRUE
    ELSE connectors[connector_id] # "Available"

\* start_transaction(connector_id, id_tag, meter_start) on a charger that has had
\* fewer than max_tx successful calls
StartTransactionUpTo(max_tx, connector_id, meter_start) ==
    /\ IF StartTransactionRaises(connector_id)
       THEN UNCHANGED <<connectors, active_transactions, energy_delivered, timers, hist>>
       ELSE LET transaction_id == Len(active_transactions) + 1 IN
            /\ Len(active_transactions) < max_tx
            /\ BagCardinality(timers) < MaxTimers
            /\ connectors' = [connectors EXCEPT ![connector_id] = "Preparing"]
            /\ active_transactions' =
                   Append(active_transactions, NewTransaction(connector_id, meter_start))
            /\ energy_delivered' =
                   IF connector_id \in DOMAIN energy_delivered THEN energy_delivered
                   ELSE [c \in DOMAIN energy_delivered \cup {connector_id} |->
                            IF c = connector_id THEN 0 ELSE energy_delivered[c]]
            /\ timers' = Schedule(Timer("_start_charging", transaction_id, PreparationDelay))
            /\ hist' = Append(Observe(hist, active_transactions, connector_id, "Preparing"),
                              [n |-> 2, ok |-> TRUE, done |-> FALSE])
    /\ UNCHANGED <<tick, nticks>>
    /\ UNCHANGED lifeVars

StartTransaction(connector_id, meter_start) ==
    StartTransactionUpTo(MaxTx, connector_id, meter_start)

\* max_power * 0.1, in units of max_power/PowerScale
InitialPower == PowerScale \div 10

\* _start_charging(transaction_id), run by the thread of the Timer t
StartCharging(t) ==
    /\ t \in Due("_start_charging")
    /\ timers' = Cancel(t)
    /\ IF t.tx \notin DOMAIN active_transactions
       THEN UNCHANGED <<connectors, active_transactions, hist>>
       ELSE LET connector_id == active_transactions[t.tx].connector_id IN
            /\ connectors' = [connectors EXCEPT ![connector_id] = "Charging"]
            /\ active_transactions' =
                   [active_transactions EXCEPT ![t.tx].current_power = InitialPower]
            /\ hist' = Observe(hist, active_transactions, connector_id, "Charging")
    /\ UNCHANGED <<energy_delivered, tick, nticks>>
    /\ UNCHANGED lifeVars

\* ------------------------------------------------------------ stop_transaction
StopTransaction(transaction_id) ==
    /\ IF transaction_id \notin DOMAIN active_transactions
       THEN UNCHANGED <<connectors, active_transactions, timers, hist>>
       ELSE LET transaction == active_transactions[transaction_id]
                connector_id == transaction.connector_id
                meter_stop == transaction.meter_start + transaction.energy_delivered
            IN
            /\ BagCardinality(timers) < MaxTimers
            /\ active_transactions' =
                   [active_transactions EXCEPT ![transaction_id] =
                       [transaction EXCEPT !.status = "Stopped", !.meter_stop = meter_stop]]
            /\ connectors' = [connectors EXCEPT ![connector_id] = "Finishing"]
            /\ timers' = Schedule(Timer("_finish_transaction", transaction_id, FinishingDelay))
            /\ hist' = Observe(hist, active_transactions, connector_id, "Finishing")
    /\ UNCHANGED <<energy_delivered, tick, nticks>>
    /\ UNCHANGED lifeVars

\* _finish_transaction(transaction_id), run by the thread of the Timer t
FinishTransaction(t) ==
    /\ t \in Due("_finish_transaction")
    /\ timers' = Cancel(t)
    /\ IF t.tx \notin DOMAIN active_transactions
       THEN UNCHANGED <<connectors, active_transactions, hist>>
       ELSE LET connector_id == active_transactions[t.tx].connector_id
                h == Observe(hist, active_transactions, connector_id, "Available")
            IN
            /\ connectors' = [connectors EXCEPT ![connector_id] = "Available"]
            /\ active_transactions' =
                   [active_transactions EXCEPT ![t.tx].status = "Completed"]
            /\ hist' = [h EXCEPT ![t.tx].done = TRUE]
    /\ UNCHANGED <<energy_delivered, tick, nticks>>
    /\ UNCHANGED lifeVars

\* ------------------------------------------------------------ calls and callbacks with
\* what they give to on_data and return
CallStartTransaction(max_tx, connector_id, meter_start) ==
    /\ StartTransactionUpTo(max_tx, connector_id, meter_start)
    /\ IF StartTransactionRaises(connector_id)
       THEN /\ emitted' = <<>>
            /\ ret' = Returned("start_transaction", connector_id, meter_start,
                               "ValueError", 0)
       ELSE LET transaction_id == Len(active_transactions) + 1 IN
            /\ emitted' = <<StatusNotification(connector_id, "Preparing"),
                            TransactionStarted(transaction_id, connector_id, meter_start)>>
            /\ ret' = Returned("start_transaction", connector_id, meter_start,
                               "id", transaction_id)
    /\ UNCHANGED tick_emitted

\* a stop_transaction that returns True whatever the id
StopTransactionReturnsTrue(known) == "True"

\* the value stop_transaction returns for an id that is, or is not, in the table
StopTransactionReturns(known) == IF known THEN "True" ELSE "False"

CallStopTransaction(transaction_id) ==
    /\ StopTransaction(transaction_id)
    /\ IF transaction_id \notin DOMAIN active_transactions
       THEN /\ emitted' = <<>>
            /\ ret' = Returned("stop_transaction", transaction_id, 0,
                               StopTransactionReturns(FALSE), 0)
       ELSE /\ emitted' =
                   <<StatusNotification(active_transactions[transaction_id].connector_id,
                                        "Finishing"),
                     TransactionStopped(transaction_id, active_transactions'[transaction_id])>>
            /\ ret' = Returned("stop_transaction", transaction_id, 0,
                               StopTransactionReturns(TRUE), 0)
    /\ UNCHANGED tick_emitted

TimerStartCharging(t) ==
    /\ StartCharging(t)
    /\ emitted' = IF t.tx \notin DOMAIN active_transactions THEN <<>>
                  ELSE <<StatusNotification(active_transactions[t.tx].connector_id,
                                            "Charging")>>
    /\ ret' = NoCall
    /\ UNCHANGED tick_emitted

TimerFinishTransaction(t) ==
    /\ FinishTransaction(t)
    /\ emitted' = IF t.tx \notin DOMAIN active_transactions THEN <<>>
                  ELSE <<StatusNotification(active_transactions[t.tx].connector_id,
                                            "Available")>>
    /\ ret' = NoCall
    /\ UNCHANGED tick_emitted

TimePasses == AdvanceTime /\ NoHandler /\ UNCHANGED tick_emitted

\* ------------------------------------------------------------ the tick
\* a curve whose taper has no floor
PowerFactorNoFloor(elapsed_minutes) ==
    IF elapsed_minutes < 5 THEN 60 + 108 * elapsed_minutes
    ELSE IF elapsed_minutes < 30 THEN 600
    ELSE 600 - 7 * (elapsed_minutes - 30)

\* power_factor for a whole number of elapsed minutes, times PowerScale
PowerFactor(elapsed_minutes) ==
    IF elapsed_minutes < 5 THEN 60 + 108 * elapsed_minutes
    ELSE IF elapsed_minutes < 30 THEN 600
    ELSE Max(180, 600 - 7 * (elapsed_minutes - 30))

\* (current_power / 1000) * tick_hours, in the model's energy unit
EnergyIncrementAt(tick_interval, current_power) == current_power * tick_interval

\* the same for the charger of Spec, whose options["tick_interval_ms"] is the default
EnergyIncrement(current_power) == EnergyIncrementAt(tick_interval_s, current_power)

\* the two tests of _update_transactions that let a transaction accrue energy
Accrues(transaction) ==
    /\ transaction.status = "Active"
    /\ connectors[transaction.connector_id] = "Charging"

\* assignments that add the energy of the power the transaction had before the tick
UpdatedTransactionOldPower(transaction, power_factor) ==
    [transaction EXCEPT !.current_power = power_factor,
                        !.energy_delivered = @ + EnergyIncrement(transaction.current_power)]

\* the assignments of _update_transactions to one transaction
UpdatedTransaction(transaction, power_factor) ==
    [transaction EXCEPT !.current_power = power_factor,
                        !.energy_delivered = @ + EnergyIncrement(power_factor)]

\* the same in a charger whose options["tick_interval_ms"] is tick_interval seconds
UpdatedTransactionAt(tick_interval, transaction, power_factor) ==
    [transaction EXCEPT !.current_power = power_factor,
                        !.energy_delivered = @ + EnergyIncrementAt(tick_interval, power_factor)]

RECURSIVE SumOver(_, _)
SumOver(S, f) ==
    IF S = {} THEN 0
    ELSE LET k == CHOOSE x \in S : TRUE IN f[k] + SumOver(S \ {k}, f)

\* the dict _send_periodic_data builds
ChargerPeriodicData ==
    [messageType |-> "ChargerPeriodicData",
     activeTransactions |->
         Cardinality({i \in DOMAIN active_transactions :
                         active_transactions[i].status = "Active"}),
     totalEnergyDelivered |-> SumOver(DOMAIN energy_delivered, energy_delivered)]

\* _tick as one step of the loop thread, the max_ticks first ticks: every transaction
\* that accrues is updated with the power factor of the elapsed minutes the tick
\* reads for it.
TickUpTo(max_ticks) ==
    /\ tick.pc = "sleep"
    /\ nticks < max_ticks
    /\ nticks' = nticks + 1
    /\ LET accruing == {i \in DOMAIN active_transactions : Accrues(active_transactions[i])}
       IN \E elapsed \in [accruing -> ElapsedMinutes] :
            LET inc == [i \in accruing |-> EnergyIncrement(PowerFactor(elapsed[i]))] IN
            /\ active_transactions' =
                   [i \in DOMAIN active_transactions |->
                       IF i \in accruing
                       THEN UpdatedTransaction(active_transactions[i], PowerFactor(elapsed[i]))
                       ELSE active_transactions[i]]
            /\ energy_delivered' =
                   [c \in DOMAIN energy_delivered |->
                       energy_delivered[c]
                       + SumOver({i \in accruing : active_transactions[i].connector_id = c},
                                 inc)]
    /\ UNCHANGED <<connectors, timers, tick, hist>>
    /\ UNCHANGED lifeVars

Tick == TickUpTo(MaxTicks)

\* the ids of the Active transactions, in the order the dict is iterated
ActiveIds ==
    SelectSeq([i \in 1 .. Len(active_transactions) |-> i],
              LAMBDA i : active_transactions[i].status = "Active")

\* the atomic tick with the payloads it gives to on_data: the periodic data before
\* _update_transactions, then one MeterValues for each transaction that is Active
TickSendUpTo(max_ticks) ==
    /\ TickUpTo(max_ticks)
    /\ tick_emitted' = <<ChargerPeriodicData>>
                        \o [k \in 1 .. Len(ActiveIds) |-> MeterValues(ActiveIds[k])]
    /\ NoHandler

TickSend == TickSendUpTo(MaxCallTicks)

\* _tick begins: _send_periodic_data, then _update_transactions creates its iterator
TickBegin ==
    /\ tick.pc = "sleep"
    /\ nticks < MaxTickTicks
    /\ nticks' = nticks + 1
    /\ tick' = [pc |-> "update", pos |-> 0, used |-> Len(active_transactions), pf |-> 0]
    /\ tick_emitted' = <<ChargerPeriodicData>>
    /\ NoHandler
    /\ UNCHANGED <<connectors, active_transactions, energy_delivered, timers, hist>>
    /\ UNCHANGED lifeVars

\* One step of "for ... in self.active_transactions.items()" in _update_transactions:
\* the iterator raises RuntimeError when the dict's size changed since it was made,
\* ends the loop when it is exhausted, and otherwise yields the next transaction,
\* whose status and connector status are tested and whose power factor is computed.
UpdateNext ==
    /\ tick.pc = "update"
    /\ IF Len(active_transactions) # tick.used
       THEN tick' = [tick EXCEPT !.pc = "failed"]
       ELSE IF tick.pos >= tick.used
       THEN tick' = [tick EXCEPT !.pc = "meter", !.pos = 0]
       ELSE IF ~Accrues(active_transactions[tick.pos + 1])
       THEN tick' = [tick EXCEPT !.pos = @ + 1]
       ELSE \E elapsed_minutes \in ElapsedMinutes :
               tick' = [tick EXCEPT !.pos = @ + 1, !.pc = "write",
                                    !.pf = PowerFactor(elapsed_minutes)]
    /\ NoHandler
    /\ UNCHANGED <<connectors, active_transactions, energy_delivered, timers, nticks, hist,
                   tick_emitted>>
    /\ UNCHANGED lifeVars

\* the assignments of _update_transactions for the transaction the iterator yielded
UpdateWrite ==
    /\ tick.pc = "write"
    /\ LET transaction == active_transactions[tick.pos] IN
       /\ active_transactions' =
              [active_transactions EXCEPT ![tick.pos] = UpdatedTransaction(transaction, tick.pf)]
       /\ energy_delivered' =
              [energy_delivered EXCEPT ![transaction.connector_id] = @ + EnergyIncrement(tick.pf)]
    /\ tick' = [tick EXCEPT !.pc = "update", !.pf = 0]
    /\ NoHandler
    /\ UNCHANGED <<connectors, timers, nticks, hist, tick_emitted>>
    /\ UNCHANGED lifeVars

\* One step of the MeterValues loop of _tick over self.active_transactions.items():
\* the iterator raises, ends, or yields the next transaction, for which
\* _send_meter_values is called when its status is Active
MeterNext ==
    /\ tick.pc = "meter"
    /\ IF Len(active_transactions) # tick.used
       THEN tick' = [tick EXCEPT !.pc = "failed"] /\ UNCHANGED tick_emitted
       ELSE IF tick.pos >= tick.used
       THEN tick' = [pc |-> "sleep", pos |-> 0, used |-> 0, pf |-> 0]
            /\ UNCHANGED tick_emitted
       ELSE /\ tick' = [tick EXCEPT !.pos = @ + 1]
            /\ tick_emitted' =
                   IF active_transactions[tick.pos + 1].status = "Active"
                   THEN Append(tick_emitted, MeterValues(tick.pos + 1))
                   ELSE tick_emitted
    /\ NoHandler
    /\ UNCHANGED <<connectors, active_transactions, energy_delivered, timers, nticks, hist>>
    /\ UNCHANGED lifeVars

\* ------------------------------------------------------------ the charger's transactions
Next ==
    \/ \E c \in 0 .. NumConnectors + 1, m \in 0 .. MaxMeterStart :
          StartTransaction(c, m) /\ UNCHANGED <<outVars, otherVars>>
    \/ \E id \in 1 .. MaxTx + 1 : StopTransaction(id) /\ UNCHANGED <<outVars, otherVars>>
    \/ \E t \in BagToSet(timers) : StartCharging(t) /\ UNCHANGED <<outVars, otherVars>>
    \/ \E t \in BagToSet(timers) : FinishTransaction(t) /\ UNCHANGED <<outVars, otherVars>>
    \/ AdvanceTime /\ UNCHANGED <<outVars, otherVars>>
    \/ Tick /\ UNCHANGED <<outVars, otherVars>>

Spec == Init /\ [][Next]_vars

\* the same with the tick taken statement by statement
TickNext ==
    \/ \E c \in 0 .. NumConnectors + 1, m \in 0 .. MaxMeterStart :
          CallStartTransaction(MaxTickTx, c, m) /\ UNCHANGED otherVars
    \/ \E id \in 1 .. MaxTickTx + 1 : CallStopTransaction(id) /\ UNCHANGED otherVars
    \/ \E t \in BagToSet(timers) : TimerStartCharging(t) /\ UNCHANGED otherVars
    \/ \E t \in BagToSet(timers) : TimerFinishTransaction(t) /\ UNCHANGED otherVars
    \/ TimePasses /\ UNCHANGED otherVars
    \/ TickBegin /\ UNCHANGED otherVars
    \/ UpdateNext /\ UNCHANGED otherVars
    \/ UpdateWrite /\ UNCHANGED otherVars
    \/ MeterNext /\ UNCHANGED otherVars

SpecTick == Init /\ [][TickNext]_vars

\* the handlers taken as one step each, with what they give to on_data and return
CallNext ==
    \/ \E c \in 0 .. NumConnectors + 1, m \in 0 .. MaxMeterStart :
          CallStartTransaction(MaxCallTx, c, m) /\ UNCHANGED otherVars
    \/ \E id \in 1 .. MaxCallTx + 1 : CallStopTransaction(id) /\ UNCHANGED otherVars
    \/ \E t \in BagToSet(timers) : TimerStartCharging(t) /\ UNCHANGED otherVars
    \/ \E t \in BagToSet(timers) : TimerFinishTransaction(t) /\ UNCHANGED otherVars
    \/ TimePasses /\ UNCHANGED otherVars
    \/ TickSend /\ UNCHANGED otherVars

SpecCall == Init /\ [][CallNext]_vars

\* ------------------------------------------------------------ get_status
\* the entry of get_status for transaction txn_id
StatusEntry(txn_id) ==
    [id |-> txn_id,
     connector_id |-> active_transactions[txn_id].connector_id,
     status |-> active_transactions[txn_id].status,
     energy_delivered |-> active_transactions[txn_id].energy_delivered,
     current_power |-> active_transactions[txn_id].current_power]

\* get_status is called: the dict display evaluates "connectors" (a comprehension over
\* self.connectors, whose size never changes) and makes the iterator of
\* self.active_transactions.items() for the second comprehension
GetStatusBegin ==
    /\ reader.pc = "idle"
    /\ reader.calls < MaxStatusCalls
    /\ reader' = [reader EXCEPT
                    !.pc = "iterate", !.pos = 0, !.used = Len(active_transactions),
                    !.calls = @ + 1, !.clean = TRUE, !.result = "none",
                    !.snapshot = [connectors |-> connectors, active_transactions |-> {},
                                  total_energy_delivered |-> NoneVal]]
    /\ UNCHANGED <<connectors, active_transactions, energy_delivered, timers, tick, nticks,
                   hist, outVars, fleet, curve, inverter, manager>>
    /\ UNCHANGED lifeVars

\* One step of the comprehension over self.active_transactions.items(): the iterator
\* raises RuntimeError when the dict's size changed since it was made; when it is
\* exhausted, total_energy_delivered is summed and the dict is returned; otherwise
\* the transaction it yields is entered if its status is Active.
GetStatusNext ==
    /\ reader.pc = "iterate"
    /\ reader' =
          IF Len(active_transactions) # reader.used
          THEN [reader EXCEPT !.pc = "idle", !.result = "RuntimeError", !.snapshot = <<>>]
          ELSE IF reader.pos >= reader.used
          THEN [reader EXCEPT
                  !.pc = "idle", !.result = "returned", !.snapshot = <<>>,
                  !.returned =
                      [reader.snapshot EXCEPT
                          !.total_energy_delivered =
                              SumOver(DOMAIN energy_delivered, energy_delivered)]]
          ELSE [reader EXCEPT
                  !.pos = @ + 1,
                  !.snapshot.active_transactions =
                      IF active_transactions[reader.pos + 1].status = "Active"
                      THEN @ \cup {StatusEntry(reader.pos + 1)} ELSE @]
    /\ UNCHANGED <<connectors, active_transactions, energy_delivered, timers, tick, nticks,
                   hist, outVars, fleet, curve, inverter, manager>>
    /\ UNCHANGED lifeVars

\* a step of another thread while a thread is inside get_status
Interleaved ==
    /\ reader' = IF reader.pc = "idle" THEN reader ELSE [reader EXCEPT !.clean = FALSE]
    /\ UNCHANGED <<fleet, curve, inverter, manager>>

\* get_status called by one thread while start_transaction and stop_transaction are
\* called by another and the timers' and the loop's threads run
StatusNext ==
    \/ \E c \in 0 .. NumConnectors + 1, m \in 0 .. MaxMeterStart :
          CallStartTransaction(MaxStatusTx, c, m) /\ Interleaved
    \/ \E id \in 1 .. MaxStatusTx + 1 : CallStopTransaction(id) /\ Interleaved
    \/ \E t \in BagToSet(timers) : TimerStartCharging(t) /\ Interleaved
    \/ \E t \in BagToSet(timers) : TimerFinishTransaction(t) /\ Interleaved
    \/ TimePasses /\ UNCHANGED otherVars
    \/ TickSendUpTo(MaxStatusTicks) /\ Interleaved
    \/ GetStatusBegin
    \/ GetStatusNext

SpecStatus == Init /\ [][StatusNext]_vars

\* ------------------------------------------------------------ chargers that differ in
\* options["tick_interval_ms"] only.  Each has one transaction whose connector is
\* Charging; the chargers tick together and every tick reads the same elapsed minutes
\* in all of them.
FleetInit ==
    /\ TxInit /\ Constructed("charger") /\ NoCurve /\ NoInverter
    /\ \E tick_interval \in [1 .. FleetSize -> TickIntervals] :
          fleet = [n |-> 0,
                   chargers |->
                       [k \in 1 .. FleetSize |->
                           [tick_interval |-> tick_interval[k],
                            transaction |-> [NewTransaction(1, 0) EXCEPT
                                                !.current_power = InitialPower]]]]

\* _update_transactions of one tick, in every charger of the fleet
FleetTick ==
    /\ fleet.n < MaxFleetTicks
    /\ \E elapsed_minutes \in ElapsedMinutes :
          fleet' = [n |-> fleet.n + 1,
                    chargers |->
                        [k \in 1 .. FleetSize |->
                            [fleet.chargers[k] EXCEPT
                                !.transaction =
                                    UpdatedTransactionAt(fleet.chargers[k].tick_interval, @,
                                                         PowerFactor(elapsed_minutes))]]]
    /\ UNCHANGED <<connectors, active_transactions, energy_delivered, timers, tick, nticks,
                   hist, outVars, curve, inverter, reader, manager>>
    /\ UNCHANGED lifeVars

SpecFleet == FleetInit /\ [][FleetTick]_vars

\* ------------------------------------------------------------ the charging curve alone
\* current_power = max_power * power_factor, times PowerScale (in 1/PowerScale watts)
CurrentPower(power_factor) == max_power * power_factor

\* a transaction started elapsed_minutes ago; no tick has read the clock yet
CurveInit ==
    /\ TxInit /\ Constructed("charger") /\ NoFleet /\ NoInverter
    /\ \E elapsed_minutes \in 0 .. MaxElapsed :
          curve = [elapsed_minutes |-> elapsed_minutes, power_factor |-> NoneVal,
                   current_power |-> NoneVal, last_factor |-> NoneVal]

\* lines 286-293 of _update_transactions for the elapsed minutes read
CurveCompute ==
    /\ curve.power_factor = NoneVal
    /\ curve' = [curve EXCEPT !.power_factor = PowerFactor(curve.elapsed_minutes),
                              !.current_power =
                                  CurrentPower(PowerFactor(curve.elapsed_minutes))]
    /\ UNCHANGED <<connectors, active_transactions, energy_delivered, timers, tick, nticks,
                   hist, outVars, fleet, inverter, reader, manager>>
    /\ UNCHANGED lifeVars

\* a minute passes before the next tick reads the clock
CurveElapse ==
    /\ curve.power_factor # NoneVal
    /\ curve.elapsed_minutes < MaxElapsed
    /\ curve' = [elapsed_minutes |-> curve.elapsed_minutes + 1, power_factor |-> NoneVal,
                 current_power |-> NoneVal, last_factor |-> curve.power_factor]
    /\ UNCHANGED <<connectors, active_transactions, energy_delivered, timers, tick, nticks,
                   hist, outVars, fleet, inverter, reader, manager>>
    /\ UNCHANGED lifeVars

CurveNext == CurveCompute \/ CurveElapse

SpecCurve == CurveInit /\ [][CurveNext]_vars

\* ------------------------------------------------------------ the inverter
\* Virtual time is counted in whole minutes since 1 January 00:00 of the year the
\* emulation starts in (a year of 365 days).  Powers are whole watts, gridPower is
\* kept in 1/100 W and reactivePower in 1/10000 W; the energy counters are kept in
\* units of 1/12000 kWh, in which the energy of P watts over 5 minutes is P.  A
\* sample of grid_power_data, grid_power / 1000 kW, is kept in 1/100000 kW.
MonthStarts == <<0, 31, 59, 90, 120, 151, 181, 212, 243, 273, 304, 334>>

At(month, day, hour, minute) ==
    (MonthStarts[month] + day - 1) * (24 * 60) + hour * 60 + minute

DayOfYear(t) == (t \div (24 * 60)) % 365
Month(t) == Cardinality({m \in 1 .. 12 : MonthStarts[m] <= DayOfYear(t)})
Day(t) == DayOfYear(t) - MonthStarts[Month(t)] + 1
Hour(t) == (t % (24 * 60)) \div 60
Minute(t) == t % 60

\* options["start_time"] of the inverters constructed
StartTimes ==
    {At(12, 31, 23, 55), At(1, 31, 23, 55), At(6, 15, 23, 57), At(6, 15, 5, 55),
     At(6, 15, 11, 55), At(12, 31, 17, 50), At(1, 31, 17, 52), At(6, 15, 17, 52),
     At(6, 15, 17, 50)}

\* arguments given to update_tick_interval
TickIntervalArgs == {0 - 1, 0, initial_tick_interval_ms, 2 * initial_tick_interval_ms}

\* cloud_factor = 0.7 + time.time() % 0.6, in thousandths
CloudFactors == {700, 1000, 1299}

\* offset_minutes of _schedule_next_fault, out of 0 .. mean_fault_interval * 24 * 60 - 1
FaultOffsets == {0, 10, mean_fault_interval * 24 * 60 - 1}

\* options["fault_duration_min"] and options["fault_duration_max"] of the inverters
\* constructed: the defaults, and a fault of one fixed duration
FaultDurationOptions ==
    {<<fault_duration_min, fault_duration_max>>, <<fault_duration_min, fault_duration_min>>}

\* duration_minutes of a fault: duration_min + time.time() % (duration_max - duration_min)
FaultDurations(duration_min, duration_max) ==
    IF duration_max > duration_min THEN {duration_min, duration_max - 1}
    ELSE {duration_min}

\* the slots of grid_power_data: 5-minute intervals of 24 hours
Slots == 288

\* [0.0] * 288; slot i of the list is element i + 1 of the sequence
NoSamples == [i \in 1 .. Slots |-> 0]

\* a scheduler that counts the offset from the virtual time before the tick
ScheduleNextFaultFromLast(fault_enabled, virtual_time, offset_minutes) ==
    IF fault_enabled THEN virtual_time - 5 + offset_minutes ELSE NoneVal

\* a scheduler that never schedules
ScheduleNextFaultNone(fault_enabled, virtual_time, offset_minutes) == NoneVal

\* _schedule_next_fault: None, or the virtual time plus the offset the clock gives
ScheduleNextFault(fault_enabled, virtual_time, offset_minutes) ==
    IF fault_enabled THEN virtual_time + offset_minutes ELSE NoneVal

\* __init__ of an InverterEmulator
InverterInit ==
    /\ TxInit /\ Constructed("inverter") /\ NoFleet /\ NoCurve
    /\ \E start_time \in StartTimes, mode \in {"inverter", "gridPower"},
          fault_enabled \in BOOLEAN, offset_minutes \in FaultOffsets,
          duration \in FaultDurationOptions :
          inverter =
              [options |-> [start_time |-> start_time, mode |-> mode,
                            fault_enabled |-> fault_enabled,
                            fault_duration_min |->
                                IF fault_enabled THEN duration[1] ELSE fault_duration_min,
                            fault_duration_max |->
                                IF fault_enabled THEN duration[2] ELSE fault_duration_max],
               virtual_time |-> start_time,
               simulation_start_time |-> start_time,
               fault_active |-> FALSE,
               next_fault_time |->
                   ScheduleNextFault(fault_enabled, start_time,
                                     IF fault_enabled THEN offset_minutes ELSE 0),
               fault_end_time |-> NoneVal,
               current_tick_interval_ms |-> initial_tick_interval_ms,
               energy_counters |-> [daily |-> 0, monthly |-> 0, yearly |-> 0],
               grid_power_data |-> NoSamples,
               last_grid_power_update |-> NoneVal,
               ticks |-> 0,
               sent |-> <<>>,
               log |-> "none",
               locals |-> [solar_power |-> NoneVal, grid_power |-> NoneVal],
               call |-> [op |-> "none", arg |-> 0, raised |-> FALSE]]

\* every variable but the inverter
notInverter ==
    <<connectors, active_transactions, energy_delivered, timers, tick, nticks, hist,
      outVars, fleet, curve, reader, manager, lifeVars>>

\* a test that lets the interval 0 through
InvalidIntervalNegative(new_interval_ms) == new_interval_ms < 0

\* the test of update_tick_interval
InvalidInterval(new_interval_ms) == new_interval_ms <= 0

\* update_tick_interval(new_interval_ms): it returns None on both paths
UpdateTickInterval(new_interval_ms) ==
    /\ LET returned == [op |-> "update_tick_interval", arg |-> new_interval_ms,
                        raised |-> FALSE]
       IN inverter' =
           IF InvalidInterval(new_interval_ms)
           THEN [inverter EXCEPT !.log = "Invalid tick interval", !.call = returned]
           ELSE [inverter EXCEPT !.current_tick_interval_ms = new_interval_ms,
                                 !.log = "Updating tick interval", !.call = returned]
    /\ UNCHANGED notInverter

\* a tick whose step of virtual time follows the wall-clock interval
AdvancedTimeByInterval(virtual_time) ==
    virtual_time + (5 * inverter.current_tick_interval_ms) \div initial_tick_interval_ms

\* virtual_time.timestamp() + (5 * 60), in minutes
AdvancedTime(virtual_time) == virtual_time + 5

\* 1000 * sin(pi * (hour - 6) / 12) for the hours 6 .. 18
SinThousandths == <<0, 259, 500, 707, 866, 966, 1000, 966, 866, 707, 500, 259, 0>>

\* a daylight window that ends at noon
IsDaylightMorning(t) == 6 <= Hour(t) /\ Hour(t) < 12

\* the fallback of _calculate_solar_power, taken when astral is not installed
IsDaylight(t) == 6 <= Hour(t) /\ Hour(t) <= 18

\* solar_power of _calculate_solar_power, in whole watts
SolarPower(t, fault_active, cloud_factor) ==
    IF ~IsDaylight(t) \/ fault_active THEN 0
    ELSE Max(0, (((peak_output * SinThousandths[Hour(t) - 5]) \div 1000) * cloud_factor)
                \div 1000)

\* resets with the tests of the daily and of the monthly counter exchanged
ResetCountersExchanged(now, counters) ==
    LET midnight == Hour(now) = 0 /\ Minute(now) = 0 IN
    [daily |-> IF Day(now) = 1 /\ midnight THEN 0 ELSE counters.daily,
     monthly |-> IF midnight THEN 0 ELSE counters.monthly,
     yearly |-> IF Month(now) = 1 /\ Day(now) = 1 /\ midnight THEN 0 ELSE counters.yearly]

\* the resets of _tick at virtual time now
ResetCounters(now, counters) ==
    LET midnight == Hour(now) = 0 /\ Minute(now) = 0 IN
    [daily |-> IF midnight THEN 0 ELSE counters.daily,
     monthly |-> IF Day(now) = 1 /\ midnight THEN 0 ELSE counters.monthly,
     yearly |-> IF Month(now) = 1 /\ Day(now) = 1 /\ midnight THEN 0 ELSE counters.yearly]

ResetSamples(now, data) ==
    IF Hour(now) = 0 /\ Minute(now) = 0 THEN NoSamples ELSE data

\* the test of _update_fault_status that starts a fault
FaultDue(now) ==
    /\ inverter.options.fault_enabled
    /\ ~inverter.fault_active
    /\ inverter.next_fault_time # NoneVal
    /\ now >= inverter.next_fault_time

\* time.time() % (fault_duration_max - fault_duration_min) raises ZeroDivisionError
\* when the two options are equal
UpdateFaultStatusRaises(now) ==
    /\ FaultDue(now)
    /\ inverter.options.fault_duration_max - inverter.options.fault_duration_min = 0

\* _update_fault_status at virtual time now: the fault fields and the message logged
UpdateFaultStatus(now, duration_minutes, offset_minutes) ==
    LET f == [fault_active |-> inverter.fault_active,
              next_fault_time |-> inverter.next_fault_time,
              fault_end_time |-> inverter.fault_end_time,
              log |-> inverter.log]
    IN
    IF ~inverter.options.fault_enabled THEN f
    ELSE IF FaultDue(now)
    THEN [f EXCEPT !.fault_end_time = now + duration_minutes,
                   !.fault_active = TRUE,
                   !.log = "Fault injected"]
    ELSE IF /\ inverter.fault_active
            /\ inverter.fault_end_time # NoneVal
            /\ now >= inverter.fault_end_time
    THEN [f EXCEPT !.fault_active = FALSE,
                   !.next_fault_time = ScheduleNextFault(TRUE, now, offset_minutes),
                   !.log = "Fault ended"]
    ELSE f

\* grid_power = solar_power * 0.98, in 1/100 W
GridPower(fault_active, solar_power) == IF ~fault_active THEN solar_power * 98 ELSE 0

\* reactive_power = grid_power * 0.05, in 1/10000 W
ReactivePower(fault_active, grid_power) == IF ~fault_active THEN grid_power * 5 ELSE 0

\* current_index of _tick
CurrentIndex(now) == Hour(now) * 12 + Minute(now) \div 5

\* a write that takes the slot number for a position counted from 1
WithSampleAtPosition(data, i, value) ==
    IF 0 < i /\ i <= Slots THEN [data EXCEPT ![i] = value] ELSE data

\* grid_power_data with slot i set to value
WithSample(data, i, value) ==
    IF 0 <= i /\ i < Slots THEN [data EXCEPT ![i + 1] = value] ELSE data

\* the energy counters after the accumulation of _tick
Accumulated(counters, fault_active, solar_power) ==
    IF ~fault_active
    THEN [daily |-> counters.daily + solar_power,
          monthly |-> counters.monthly + solar_power,
          yearly |-> counters.yearly + solar_power]
    ELSE counters

\* _tick of the inverter, up to the statement that raises when one does
InverterTickBody ==
    /\ \E cloud_factor \in CloudFactors,
          duration_minutes \in FaultDurations(inverter.options.fault_duration_min,
                                              inverter.options.fault_duration_max),
          offset_minutes \in FaultOffsets :
        LET now == AdvancedTime(inverter.virtual_time)
            reset == ResetCounters(now, inverter.energy_counters)
            cleared == ResetSamples(now, inverter.grid_power_data)
            is_daylight == IsDaylight(now)
            solar_power == SolarPower(now, inverter.fault_active, cloud_factor)
            fault == UpdateFaultStatus(now, duration_minutes, offset_minutes)
            grid_power == GridPower(fault.fault_active, solar_power)
            reactive_power == ReactivePower(fault.fault_active, grid_power)
            data == WithSample(cleared, CurrentIndex(now), grid_power)
            grid_due == /\ inverter.options.mode = "gridPower"
                        /\ IF inverter.last_grid_power_update = NoneVal THEN TRUE
                           ELSE (now - inverter.last_grid_power_update) * 60 >= 300
            counters == Accumulated(reset, fault.fault_active, solar_power)
            elapsed_emulation_time_ms == (now - inverter.simulation_start_time) * 60000
            grid_payload == [type |-> "gridPowerPeriodic", gridPower |-> data,
                             timestamp |-> now]
            inverter_payload ==
                [type |-> "inverterData", timestamp |-> now,
                 elapsedEmulationTimeMs |-> elapsed_emulation_time_ms,
                 pvStatus |-> IF is_daylight THEN 1 ELSE 0,
                 inverterOn |-> IF fault.fault_active THEN 0 ELSE 1,
                 faultCode |-> IF fault.fault_active THEN 1 ELSE 0,
                 gridPower |-> grid_power, reactivePower |-> reactive_power,
                 solarPower |-> solar_power,
                 dailyEnergy |-> counters.daily, monthlyEnergy |-> counters.monthly,
                 yearlyEnergy |-> counters.yearly]
        IN
        inverter' =
            IF UpdateFaultStatusRaises(now)
            THEN [inverter EXCEPT
                    !.virtual_time = now,
                    !.energy_counters = reset,
                    !.grid_power_data = cleared,
                    !.ticks = @ + 1,
                    !.locals = [solar_power |-> solar_power, grid_power |-> NoneVal],
                    !.call = [op |-> "_tick", arg |-> 0, raised |-> TRUE],
                    !.sent = <<>>]
            ELSE [inverter EXCEPT
                    !.virtual_time = now,
                    !.fault_active = fault.fault_active,
                    !.next_fault_time = fault.next_fault_time,
                    !.fault_end_time = fault.fault_end_time,
                    !.log = fault.log,
                    !.energy_counters = counters,
                    !.grid_power_data = data,
                    !.last_grid_power_update = IF grid_due THEN now ELSE @,
                    !.ticks = @ + 1,
                    !.locals = [solar_power |-> solar_power, grid_power |-> grid_power],
                    !.call = [op |-> "_tick", arg |-> 0, raised |-> FALSE],
                    !.sent = (IF grid_due THEN <<grid_payload>> ELSE <<>>)
                             \o (IF inverter.options.mode = "inverter"
                                 THEN <<inverter_payload>> ELSE <<>>)]
    /\ UNCHANGED notInverter

\* the MaxInverterTicks first ticks
InverterTick == inverter.ticks < MaxInverterTicks /\ InverterTickBody

InverterNext ==
    \/ \E new_interval_ms \in TickIntervalArgs : UpdateTickInterval(new_interval_ms)
    \/ InverterTick

SpecInverter == InverterInit /\ [][InverterNext]_vars

\* ------------------------------------------------------------ an evening and a night
\* An inverter without fault injection constructed in the last hour of solar output,
\* ticking until after the next midnight.
CalendarInit ==
    InverterInit /\ ~inverter.options.fault_enabled /\ Hour(inverter.options.start_time) = 17

CalendarTick == inverter.ticks < MaxCalendarTicks /\ InverterTickBody

SpecCalendar == CalendarInit /\ [][CalendarTick]_vars

\* ------------------------------------------------------------ the fault scheduler
\* An inverter with fault injection enabled whose loop thread keeps ticking: the
\* MaxFaultTicks first ticks, and after them the ticks of a fault that is active.
FaultInit == InverterInit /\ inverter.options.fault_enabled

FaultTick ==
    /\ IF inverter.ticks < MaxFaultTicks THEN TRUE ELSE inverter.fault_active
    /\ InverterTickBody

\* _run_loop calls _tick again after every sleep
SpecFault == FaultInit /\ [][FaultTick]_vars /\ WF_vars(FaultTick)

\* ------------------------------------------------------------ claims on the transactions
TxIds == DOMAIN active_transactions

\* C1: for every transaction, the statuses its connector takes from the start of the
\* transaction until the transaction is Completed are exactly Available, Preparing,
\* Charging, Finishing, Available: at every moment a prefix of that sequence taken in
\* order, and the whole of it once the transaction is Completed.
C1_StatusSequence ==
    \A i \in DOMAIN hist :
        /\ hist[i].ok
        /\ hist[i].done => hist[i].n = Len(ExpectedSequence)

ActiveOn(c) ==
    {i \in TxIds : active_transactions[i].status = "Active"
                   /\ active_transactions[i].connector_id = c}

\* C2: every connector is Available after construction, and in every reachable state
\* at most one Active transaction references a given connector.
C2_OneActivePerConnector ==
    /\ \A c \in Connectors : connectors[c] = "Available"
    /\ [](\A c \in Connectors : Cardinality(ActiveOn(c)) <= 1)

\* C3: once stop_transaction has set meter_stop it never changes again, and in every
\* later state meter_stop = meter_start + energy_delivered of that transaction.
C3_MeterStopFixed ==
    /\ [](\A i \in TxIds :
            active_transactions[i].meter_stop # NoneVal =>
                active_transactions[i].meter_stop =
                    active_transactions[i].meter_start
                    + active_transactions[i].energy_delivered)
    /\ [][\A i \in TxIds :
            active_transactions[i].meter_stop # NoneVal =>
                active_transactions'[i].meter_stop = active_transactions[i].meter_stop]_vars

\* C4: a transaction's status only moves forward along Active, Stopped, Completed: a
\* Stopped transaction never becomes Active again and a Completed transaction never
\* changes status again.
C4_StatusForward ==
    [][\A i \in TxIds :
        /\ active_transactions[i].status = "Stopped" =>
               active_transactions'[i].status # "Active"
        /\ active_transactions[i].status = "Completed" =>
               active_transactions'[i].status = "Completed"]_vars

\* a step of the loop thread: the thread's position in its loop moved
ByTickLoop == nticks' # nticks \/ tick' # tick

\* C5: connector statuses and transaction fields are written by the tick loop's
\* thread only: every step that changes them is a step of the loop thread.
C5_SingleWriter ==
    [][(connectors' # connectors \/ active_transactions' # active_transactions)
        => ByTickLoop]_vars

\* C36: a connector that is Preparing, Charging or Finishing has a transaction that
\* is not Completed; no connector is left Charging once its transaction has been
\* Stopped and Completed, however stop_transaction and the two timers are timed.
C36_BusyConnectorHasTransaction ==
    \A c \in Connectors :
        connectors[c] \in {"Preparing", "Charging", "Finishing"} =>
            \E i \in DOMAIN active_transactions :
                /\ active_transactions[i].connector_id = c
                /\ active_transactions[i].status # "Completed"

\* ------------------------------------------------------------ claims on calls
\* C11: a start_transaction call whose connector_id is not one of the charger's
\* connectors, or whose connector is not Available, raises ValueError, leaves every
\* connector status, the transaction table and the energy counters as they were and
\* gives no payload to on_data.
C11_StartRejected ==
    [][(/\ ret'.op = "start_transaction"
        /\ IF ret'.arg \in Connectors THEN connectors[ret'.arg] # "Available" ELSE TRUE)
       => /\ ret'.result = "ValueError"
          /\ emitted' = <<>>
          /\ UNCHANGED <<connectors, active_transactions, energy_delivered, tick_emitted>>
      ]_vars

\* a start_transaction on a connector that a transaction holds has just been rejected
C11_Witness ==
    /\ ret.op = "start_transaction"
    /\ ret.result = "ValueError"
    /\ ret.arg \in Connectors
    /\ connectors[ret.arg] \in {"Preparing", "Charging", "Finishing"}
    /\ active_transactions # <<>>

\* C12: a stop_transaction call with an id that start_transaction never returned
\* returns False, gives no payload to on_data, starts no Timer and leaves every
\* connector status and every transaction as it was.
C12_StopUnknown ==
    [][(ret'.op = "stop_transaction" /\ ret'.arg \notin DOMAIN active_transactions)
       => /\ ret'.result = "False"
          /\ emitted' = <<>>
          /\ UNCHANGED <<timers, connectors, active_transactions, tick_emitted>>
      ]_vars

\* a stop_transaction with an unknown id has just returned while a transaction is in
\* the table and a Timer is pending
C12_Witness ==
    /\ ret.op = "stop_transaction"
    /\ ret.arg \notin DOMAIN active_transactions
    /\ ret.result = "False"
    /\ active_transactions # <<>>
    /\ timers # EmptyBag

\* the Timer start_transaction created for transaction i has not fired yet
Preparing(i) ==
    \E t \in BagToSet(timers) : t.fn = "_start_charging" /\ t.tx = i

\* C13: a successful start_transaction(c, tag, m) returns a fresh id while the
\* preparation delay is still to run; at return connector c is Preparing, the new
\* transaction is Active with connector_id c, meter_start m, energy_delivered 0,
\* current_power 0 and no meter_stop, and StatusNotification(Preparing) then
\* TransactionStarted have been given to on_data.  While the transaction has not
\* been stopped and its delay has not fired, its connector stays Preparing and its
\* power 0; when the delay fires the connector becomes Charging and the power is 10%
\* of max_power.
C13_StartThenCharging ==
    /\ [][(ret'.op = "start_transaction" /\ ret'.result = "id") =>
            LET i == ret'.id
                c == ret'.arg
            IN
            /\ i \notin DOMAIN active_transactions
            /\ i \in DOMAIN active_transactions'
            /\ Timer("_start_charging", i, PreparationDelay) \in BagToSet(timers')
            /\ connectors'[c] = "Preparing"
            /\ active_transactions'[i] =
                   [connector_id |-> c, meter_start |-> ret'.meter_start,
                    meter_stop |-> NoneVal, status |-> "Active",
                    energy_delivered |-> 0, current_power |-> 0]
            /\ emitted' = <<StatusNotification(c, "Preparing"),
                            TransactionStarted(i, c, ret'.meter_start)>>
         ]_vars
    /\ [](\A i \in TxIds :
            (active_transactions[i].status = "Active" /\ Preparing(i)) =>
                /\ connectors[active_transactions[i].connector_id] = "Preparing"
                /\ active_transactions[i].current_power = 0)
    /\ [][\A i \in TxIds :
            (active_transactions[i].status = "Active" /\ Preparing(i) /\ ~Preparing(i)') =>
                /\ connectors'[active_transactions[i].connector_id] = "Charging"
                /\ active_transactions'[i].current_power = InitialPower
         ]_vars

\* the Timer stop_transaction created for transaction i has not fired yet
Finishing(i) ==
    \E t \in BagToSet(timers) : t.fn = "_finish_transaction" /\ t.tx = i

\* a transaction on connector c has been Completed
CompletedOn(c) ==
    \E i \in TxIds : /\ active_transactions[i].connector_id = c
                      /\ active_transactions[i].status = "Completed"

\* C14: a stop_transaction of an Active transaction returns True having set the
\* transaction Stopped and its connector Finishing and given StatusNotification then
\* TransactionStopped to on_data; when the finishing delay fires the connector becomes
\* Available and the transaction Completed; from then on the connector stays
\* Available until the next successful start_transaction on it.
C14_StopThenAvailable ==
    /\ [][(/\ ret'.op = "stop_transaction"
            /\ IF ret'.arg \in TxIds THEN active_transactions[ret'.arg].status = "Active"
               ELSE FALSE) =>
            LET i == ret'.arg
                c == active_transactions[i].connector_id
            IN
            /\ ret'.result = "True"
            /\ active_transactions'[i].status = "Stopped"
            /\ connectors'[c] = "Finishing"
            /\ emitted' = <<StatusNotification(c, "Finishing"),
                            TransactionStopped(i, active_transactions'[i])>>
         ]_vars
    /\ [][\A i \in TxIds :
            (Finishing(i) /\ ~Finishing(i)') =>
                /\ connectors'[active_transactions[i].connector_id] = "Available"
                /\ active_transactions'[i].status = "Completed"
         ]_vars
    /\ [][\A c \in Connectors :
            (CompletedOn(c) /\ connectors[c] = "Available" /\ connectors'[c] # "Available")
                => (ret'.op = "start_transaction" /\ ret'.arg = c /\ ret'.result = "id")
         ]_vars

\* C37: stop_transaction for a transaction that is already Stopped or Completed
\* changes no connector's status and not the transaction's status, gives on_data no
\* TransactionStopped and schedules no finishing timer, also when another transaction
\* has started on the connector meanwhile.
C37_StopIdempotent ==
    [][(/\ ret'.op = "stop_transaction"
        /\ ret'.arg \in DOMAIN active_transactions
        /\ active_transactions[ret'.arg].status \in {"Stopped", "Completed"}) =>
          /\ connectors' = connectors
          /\ active_transactions'[ret'.arg].status = active_transactions[ret'.arg].status
          /\ \A k \in DOMAIN emitted' : emitted'[k].messageType # "TransactionStopped"
          /\ timers' = timers
      ]_vars

\* ------------------------------------------------------------ claims on the tick
\* C15: the energy_delivered of an Active transaction is 0 when the transaction is
\* created, never decreases, is left alone by every step that is not a tick, and
\* grows in every tick by (the current_power that tick computed) x (the tick
\* interval) when the connector is Charging and by nothing when it is not: after
\* every tick it is the sum of these contributions since the transaction started.
C15_EnergyIsSum ==
    [][/\ \A i \in DOMAIN active_transactions' \ TxIds :
              active_transactions'[i].energy_delivered = 0
       /\ \A i \in TxIds :
              active_transactions[i].status = "Active" =>
                 LET before == active_transactions[i]
                     after == active_transactions'[i]
                     charging == connectors[before.connector_id] = "Charging"
                 IN
                 /\ after.energy_delivered >= before.energy_delivered
                 /\ after.energy_delivered =
                        before.energy_delivered
                        + (IF nticks' # nticks /\ charging
                           THEN after.current_power * tick_interval_s
                           ELSE 0)
      ]_vars

\* two ticks have computed different powers for an Active transaction, which holds
\* the energy of both
C15_Witness ==
    /\ nticks = 2
    /\ \E i \in TxIds :
          /\ active_transactions[i].status = "Active"
          /\ active_transactions[i].energy_delivered =
                 (PowerFactor(0) + PowerFactor(60)) * tick_interval_s

\* C16: whatever options["tick_interval_ms"] is, a tick adds to a transaction the
\* energy of its current_power over 5 minutes (5 * 60 seconds), so that chargers
\* that differ in tick_interval_ms only hold the same energy_delivered after the same
\* ticks at the same powers.
C16_IntervalIndependent ==
    /\ [][fleet'.n # fleet.n =>
            \A k \in 1 .. FleetSize :
                fleet'.chargers[k].transaction.energy_delivered
                - fleet.chargers[k].transaction.energy_delivered
                = fleet'.chargers[k].transaction.current_power * (5 * 60)
         ]_vars
    /\ [](\A j, k \in 1 .. FleetSize :
            fleet.chargers[j].transaction.energy_delivered
            = fleet.chargers[k].transaction.energy_delivered)

\* C19: the power factor is 0.1 at 0 elapsed minutes, rises with every minute up to
\* 1.0 at 5 minutes, is 1.0 from 5 to below 30 minutes and is
\* max(0.3, 1.0 - ((e - 30) / 60) * 0.7) from 30 minutes on; current_power =
\* max_power x factor lies between 0.1 x max_power and max_power, is max_power at 5
\* minutes and is at least 0.3 x max_power from 5 minutes on.
C19_ChargingCurve ==
    curve.power_factor # NoneVal =>
        LET e == curve.elapsed_minutes
            f == curve.power_factor
            p == curve.current_power
        IN
        /\ e = 0 => 10 * f = PowerScale
        /\ (0 < e /\ e < 5) => (10 * f > PowerScale /\ f < PowerScale)
        /\ (0 < e /\ e <= 5 /\ curve.last_factor # NoneVal) => f > curve.last_factor
        /\ (5 <= e /\ e < 30) => f = PowerScale
        /\ e >= 30 => 600 * f = Max(180 * PowerScale,
                                    600 * PowerScale - 7 * PowerScale * (e - 30))
        /\ 10 * p >= max_power * PowerScale
        /\ p <= max_power * PowerScale
        /\ e = 5 => p = max_power * PowerScale
        /\ e >= 5 => 10 * p >= 3 * max_power * PowerScale

\* the curve has been evaluated on its floor, beyond 90 elapsed minutes
C19_Witness ==
    /\ curve.power_factor # NoneVal
    /\ curve.elapsed_minutes > 90
    /\ 10 * curve.power_factor = 3 * PowerScale
    /\ curve.last_factor = curve.power_factor

\* the MeterValues payloads of the current tick that name transaction i
MeterValuesFor(i) ==
    {k \in DOMAIN tick_emitted :
        tick_emitted[k] = [messageType |-> "MeterValues", transactionId |-> i,
                           connectorId |-> active_transactions[i].connector_id]}

\* C20: each charger tick gives on_data exactly one ChargerPeriodicData, whose
\* activeTransactions is the number of Active transactions and whose
\* totalEnergyDelivered is the sum of the per-connector counters; every MeterValues
\* it gives is for a transaction that is Active and has none yet in this tick; and
\* when the tick ends every Active transaction has had its MeterValues.
C20_TickPayloads ==
    /\ [](tick_emitted # <<>> =>
            {k \in DOMAIN tick_emitted :
                tick_emitted[k].messageType = "ChargerPeriodicData"} = {1})
    /\ [][nticks' # nticks =>
            tick_emitted' =
                <<[messageType |-> "ChargerPeriodicData",
                   activeTransactions |->
                       Cardinality({i \in TxIds : active_transactions[i].status = "Active"}),
                   totalEnergyDelivered |->
                       SumOver(DOMAIN energy_delivered, energy_delivered)]>>
         ]_vars
    /\ [][(nticks' = nticks /\ tick_emitted' # tick_emitted) =>
            \E i \in TxIds :
                /\ active_transactions[i].status = "Active"
                /\ MeterValuesFor(i) = {}
                /\ tick_emitted' = Append(tick_emitted, MeterValues(i))
         ]_vars
    /\ [][(tick.pc \in {"update", "write", "meter"} /\ tick'.pc \in {"sleep", "failed"}) =>
            \A i \in TxIds :
                active_transactions[i].status = "Active" => MeterValuesFor(i) # {}
         ]_vars

\* C38: a start_transaction called by another thread while the loop thread is inside
\* a tick, iterating the table in _update_transactions or in the MeterValues loop,
\* never makes the tick fail, so that the loop thread never ends by an exception.
C38_TickSurvivesStart == tick.pc # "failed"

\* the transactions ever started on connector c
StartedOn(c) == {i \in TxIds : active_transactions[i].connector_id = c}

\* C39: in every reachable state the cumulative counter energy_delivered[c] equals the
\* sum of energy_delivered over all transactions ever started on connector c, and the
\* energy_delivered of a transaction changes only while the transaction is Active and
\* its connector is Charging (never while the connector is Preparing or Finishing).
C39_EnergyCounters ==
    /\ [](\A c \in Connectors :
            IF c \in DOMAIN energy_delivered
            THEN energy_delivered[c] =
                     SumOver(StartedOn(c),
                             [i \in TxIds |-> active_transactions[i].energy_delivered])
            ELSE StartedOn(c) = {})
    /\ [][\A i \in TxIds :
            active_transactions'[i].energy_delivered
                    # active_transactions[i].energy_delivered
                => Accrues(active_transactions[i])]_vars

\* ------------------------------------------------------------ claims on get_status
\* the dict get_status would build from the present state
PresentStatus ==
    [connectors |-> connectors,
     active_transactions |->
         {StatusEntry(i) : i \in {j \in DOMAIN active_transactions :
                                     active_transactions[j].status = "Active"}},
     total_energy_delivered |-> SumOver(DOMAIN energy_delivered, energy_delivered)]

\* a step of the thread inside get_status
StatusStep == reader'.calls # reader.calls \/ reader'.pos # reader.pos \/ reader'.pc # reader.pc

\* C21: get_status changes no state of the emulator; the dict it returns lists all
\* the connectors and only transactions that are Active, and is the present status
\* when no other thread ran during the call; a dict that was returned is not changed
\* by later ticks or calls; and a get_status call never fails, also when it runs
\* together with a tick or a start_transaction.
C21_GetStatus ==
    /\ [][StatusStep =>
            UNCHANGED <<connectors, active_transactions, energy_delivered, timers, tick,
                        nticks, hist, outVars, lifeVars>>]_vars
    /\ [][(StatusStep /\ reader'.result = "returned") =>
            /\ DOMAIN reader'.returned.connectors = Connectors
            /\ \A e \in reader'.returned.active_transactions : e.status = "Active"
            /\ reader.clean => reader'.returned = PresentStatus]_vars
    /\ [][reader'.returned # reader.returned =>
            (StatusStep /\ reader'.result = "returned")]_vars
    /\ [](reader.result # "RuntimeError")

\* ------------------------------------------------------------ claims on the inverter
\* C17: every inverter tick advances virtual_time by exactly 5 minutes, and the
\* tick's reset test, daylight test, fault test and payload all use the advanced
\* time; after n ticks virtual_time is start_time + 5n minutes and the payload's
\* elapsedEmulationTimeMs is 300000 x n, whatever update_tick_interval calls were
\* made between the ticks.
C17_VirtualTimeStep ==
    /\ [](inverter.virtual_time = inverter.options.start_time + 5 * inverter.ticks)
    /\ [](\A k \in DOMAIN inverter.sent :
            /\ inverter.sent[k].timestamp = inverter.virtual_time
            /\ inverter.sent[k].type = "inverterData" =>
                   /\ inverter.sent[k].elapsedEmulationTimeMs = 300000 * inverter.ticks
                   /\ inverter.sent[k].pvStatus = 1 <=>
                          (6 <= Hour(inverter.virtual_time)
                           /\ Hour(inverter.virtual_time) <= 18))
    /\ [][inverter'.ticks # inverter.ticks =>
            LET now == inverter.virtual_time + 5 IN
            /\ inverter'.virtual_time = now
            /\ (Hour(now) = 0 /\ Minute(now) = 0) =>
                   (inverter'.energy_counters.daily = 0 /\ inverter'.grid_power_data = NoSamples)
            /\ (/\ inverter.options.fault_enabled
                /\ ~inverter.fault_active
                /\ now >= inverter.next_fault_time) =>
                   (inverter'.fault_active \/ inverter'.call.raised)
            /\ (/\ ~inverter.fault_active
                /\ now < inverter.next_fault_time) => ~inverter'.fault_active
         ]_vars

\* two ticks have run, with update_tick_interval calls that changed the interval
C17_Witness ==
    /\ inverter.ticks >= 2
    /\ inverter.current_tick_interval_ms = 2 * initial_tick_interval_ms
    /\ inverter.sent # <<>>

\* C18: update_tick_interval(ms) raises nothing; with ms <= 0 it changes nothing but
\* the message logged, current_tick_interval_ms included; with ms > 0 it sets
\* current_tick_interval_ms to ms and changes nothing else but the message logged.
C18_UpdateTickInterval ==
    [][inverter'.call.op = "update_tick_interval" =>
          LET ms == inverter'.call.arg
              restored == [inverter' EXCEPT !.log = inverter.log, !.call = inverter.call]
          IN
          /\ ~inverter'.call.raised
          /\ UNCHANGED notInverter
          /\ IF ms <= 0
             THEN /\ restored = inverter
                  /\ inverter'.log = "Invalid tick interval"
             ELSE /\ inverter'.current_tick_interval_ms = ms
                  /\ [restored EXCEPT !.current_tick_interval_ms =
                                          inverter.current_tick_interval_ms] = inverter
      ]_vars

\* update_tick_interval(0) has just returned on an inverter whose interval an earlier
\* call had changed
C18_Witness ==
    /\ inverter.call = [op |-> "update_tick_interval", arg |-> 0, raised |-> FALSE]
    /\ inverter.current_tick_interval_ms = 2 * initial_tick_interval_ms
    /\ inverter.log = "Invalid tick interval"
    /\ inverter.ticks > 0

\* C22: every per-tick payload sent while the fault is active (faultCode 1, inverterOn
\* 0) has solarPower, gridPower and reactivePower 0, the payload of the tick in which
\* the fault becomes active included.
C22_FaultZeroOutput ==
    \A k \in DOMAIN inverter.sent :
        (inverter.sent[k].type = "inverterData" /\ inverter.fault_active) =>
            /\ inverter.sent[k].faultCode = 1
            /\ inverter.sent[k].inverterOn = 0
            /\ inverter.sent[k].solarPower = 0
            /\ inverter.sent[k].gridPower = 0
            /\ inverter.sent[k].reactivePower = 0

\* the two states of the fault scheduler
SchedulingNextFault == ~inverter.fault_active /\ inverter.next_fault_time # NoneVal
CountingDownFault == inverter.fault_active /\ inverter.fault_end_time # NoneVal

\* C23: with fault injection enabled, in every state either no fault is active and
\* next_fault_time is set, or a fault is active and fault_end_time is set, and never
\* both or neither.
C23_OneSchedulerState ==
    inverter.options.fault_enabled =>
        /\ SchedulingNextFault \/ CountingDownFault
        /\ ~(SchedulingNextFault /\ CountingDownFault)

\* a second fault is active, after the first one was cleared and rescheduled
C23_Witness ==
    /\ inverter.options.fault_enabled
    /\ inverter.fault_active
    /\ inverter.fault_end_time > inverter.next_fault_time + fault_duration_max
    /\ inverter.next_fault_time > inverter.options.start_time

\* C24: with fault injection enabled and fault_duration_min <= fault_duration_max, a
\* tick whose virtual time has reached next_fault_time while no fault is active makes
\* the fault active and sets fault_end_time between fault_duration_min and
\* fault_duration_max minutes after the tick's virtual time; no fault becomes active
\* at a tick whose virtual time is before next_fault_time.
C24_FaultActivation ==
    [][inverter'.ticks # inverter.ticks =>
          LET now == inverter'.virtual_time
              opts == inverter.options
          IN
          (opts.fault_enabled /\ opts.fault_duration_min <= opts.fault_duration_max
           /\ ~inverter.fault_active) =>
              IF now >= inverter.next_fault_time
              THEN /\ inverter'.fault_active
                   /\ inverter'.fault_end_time >= now + opts.fault_duration_min
                   /\ inverter'.fault_end_time <= now + opts.fault_duration_max
              ELSE ~inverter'.fault_active
      ]_vars

\* C25: a fault that is active is cleared at the first tick whose virtual time is at
\* or after fault_end_time, and not before; that tick sets next_fault_time to a time
\* not earlier than its virtual time and less than mean_fault_interval days after it;
\* as ticks continue every fault that becomes active is eventually cleared.
C25_FaultCleared ==
    /\ [][(inverter'.ticks # inverter.ticks /\ inverter.fault_active) =>
            LET now == inverter'.virtual_time IN
            IF now >= inverter.fault_end_time
            THEN /\ ~inverter'.fault_active
                 /\ inverter'.next_fault_time >= now
                 /\ inverter'.next_fault_time < now + mean_fault_interval * 24 * 60
            ELSE /\ inverter'.fault_active
                 /\ inverter'.next_fault_time = inverter.next_fault_time
         ]_vars
    /\ inverter.fault_active ~> ~inverter.fault_active

\* a fault of the longest duration has been cleared, after the ticks that may start
\* one, and the next one is scheduled at the end of the interval
C25_Witness ==
    /\ ~inverter.fault_active
    /\ inverter.log = "Fault ended"
    /\ inverter.ticks > MaxFaultTicks
    /\ inverter.virtual_time >= inverter.fault_end_time
    /\ inverter.next_fault_time = inverter.virtual_time + mean_fault_interval * 24 * 60 - 1

\* C26: for every start_time, aligned to 5 minutes or not, a tick whose advance
\* crosses a virtual midnight leaves the daily counter and all 288 samples with
\* nothing but what the tick itself adds, a tick that crosses into the 1st of a month
\* does so with the monthly counter too, a tick that crosses into 1 January with the
\* yearly counter too; on every other tick the counters and the other samples keep
\* what they had.
C26_CalendarResets ==
    [][inverter'.ticks # inverter.ticks =>
          LET now == inverter'.virtual_time
              crosses_day == now \div (24 * 60) # inverter.virtual_time \div (24 * 60)
              crosses_month == crosses_day /\ Day(now) = 1
              crosses_year == crosses_month /\ Month(now) = 1
              added == IF inverter'.fault_active \/ inverter'.call.raised THEN 0
                       ELSE inverter'.locals.solar_power
              old == inverter.energy_counters
              new == inverter'.energy_counters
          IN
          /\ new.daily = (IF crosses_day THEN 0 ELSE old.daily) + added
          /\ new.monthly = (IF crosses_month THEN 0 ELSE old.monthly) + added
          /\ new.yearly = (IF crosses_year THEN 0 ELSE old.yearly) + added
          /\ \A i \in 1 .. Slots :
                i # CurrentIndex(now) + 1 =>
                    inverter'.grid_power_data[i] =
                        IF crosses_day THEN 0 ELSE inverter.grid_power_data[i]
      ]_vars

C28_SolarPowerBounds ==
    inverter.locals.solar_power # NoneVal =>
        /\ 0 <= inverter.locals.solar_power
        /\ inverter.locals.solar_power <= 5000
        /\ ~(6 <= Hour(inverter.virtual_time) /\ Hour(inverter.virtual_time) <= 18) =>
               inverter.locals.solar_power = 0

\* C29: a tick that ends with fault_active true adds nothing to the daily, monthly
\* and yearly counters; every other tick adds to each of the three the same amount,
\* the energy of the tick's solar power over 5 minutes; so a counter that the tick
\* does not reset does not decrease.
C29_EnergyAccumulation ==
    [][inverter'.ticks # inverter.ticks =>
          LET now == inverter'.virtual_time
              midnight == Hour(now) = 0 /\ Minute(now) = 0
              old == inverter.energy_counters
              new == inverter'.energy_counters
              daily == IF midnight THEN 0 ELSE old.daily
              monthly == IF midnight /\ Day(now) = 1 THEN 0 ELSE old.monthly
              yearly == IF midnight /\ Day(now) = 1 /\ Month(now) = 1 THEN 0 ELSE old.yearly
              added == IF inverter'.fault_active THEN 0 ELSE inverter'.locals.solar_power
          IN
          /\ added >= 0
          /\ new.daily = daily + added
          /\ new.monthly = monthly + added
          /\ new.yearly = yearly + added
          /\ ~midnight => new.daily >= old.daily
      ]_vars

\* C30: every inverter tick gives on_data exactly one payload: in mode 'inverter' the
\* per-tick payload, with elapsedEmulationTimeMs and the three energy counters, and
\* no batch payload; in mode 'gridPower' one gridPowerPeriodic payload with a copy of
\* the 288 samples, at least 5 virtual minutes after the one before, and no per-tick
\* payload.
C30_OnePayloadPerTick ==
    [][inverter'.ticks # inverter.ticks =>
          LET now == inverter'.virtual_time
              sent == inverter'.sent
          IN
          /\ Len(sent) = 1
          /\ sent[1].timestamp = now
          /\ IF inverter.options.mode = "inverter"
             THEN /\ sent[1].type = "inverterData"
                  /\ sent[1].elapsedEmulationTimeMs =
                         (now - inverter.options.start_time) * 60000
                  /\ sent[1].dailyEnergy = inverter'.energy_counters.daily
                  /\ sent[1].monthlyEnergy = inverter'.energy_counters.monthly
                  /\ sent[1].yearlyEnergy = inverter'.energy_counters.yearly
             ELSE /\ sent[1].type = "gridPowerPeriodic"
                  /\ sent[1].gridPower = inverter'.grid_power_data
                  /\ Len(sent[1].gridPower) = 288
                  /\ inverter.last_grid_power_update # NoneVal =>
                         now - inverter.last_grid_power_update >= 5
                  /\ inverter'.last_grid_power_update = now
      ]_vars

\* C31: without fault injection and with the daylight window of the hours 6 to 18,
\* the payload of every tick whose virtual time is in the hour 12 has pvStatus 1 and
\* solarPower > 0, and the payload of every tick whose virtual time is in the hour 0
\* has pvStatus 0 and solarPower 0.
C31_NoonAndMidnight ==
    ~inverter.options.fault_enabled =>
        \A k \in DOMAIN inverter.sent :
            inverter.sent[k].type = "inverterData" =>
                /\ Hour(inverter.sent[k].timestamp) = 12 =>
                       (inverter.sent[k].pvStatus = 1 /\ inverter.sent[k].solarPower > 0)
                /\ Hour(inverter.sent[k].timestamp) = 0 =>
                       (inverter.sent[k].pvStatus = 0 /\ inverter.sent[k].solarPower = 0)

\* the tick of 12:05 has sent its payload, under the thickest cloud
C31_Witness ==
    /\ ~inverter.options.fault_enabled
    /\ inverter.virtual_time = At(6, 15, 12, 5)
    /\ inverter.sent # <<>>
    /\ inverter.sent[1].type = "inverterData"
    /\ inverter.sent[1].pvStatus = 1
    /\ inverter.sent[1].solarPower = (peak_output * 700) \div 1000

\* C40: in every state of the inverter 0 <= daily <= monthly <= yearly; a tick that
\* resets the monthly counter resets the daily one too, a tick that resets the yearly
\* counter resets the other two too, and the tick adds one amount, not negative, to
\* all three.
C40_CountersOrdered ==
    /\ [](/\ 0 <= inverter.energy_counters.daily
          /\ inverter.energy_counters.daily <= inverter.energy_counters.monthly
          /\ inverter.energy_counters.monthly <= inverter.energy_counters.yearly)
    /\ [][inverter'.ticks # inverter.ticks =>
            LET old == inverter.energy_counters
                new == inverter'.energy_counters
            IN
            \E added \in {new.daily, new.daily - old.daily},
               daily_reset, monthly_reset, yearly_reset \in BOOLEAN :
                /\ added >= 0
                /\ yearly_reset => monthly_reset
                /\ monthly_reset => daily_reset
                /\ new.daily = (IF daily_reset THEN 0 ELSE old.daily) + added
                /\ new.monthly = (IF monthly_reset THEN 0 ELSE old.monthly) + added
                /\ new.yearly = (IF yearly_reset THEN 0 ELSE old.yearly) + added
         ]_vars

\* the midnight of 16 June has reset the daily counter and left the other two with
\* the energy of the evening
C40_Witness ==
    /\ inverter.virtual_time = At(6, 16, 0, 0)
    /\ inverter.energy_counters.daily = 0
    /\ inverter.energy_counters.monthly > 0
    /\ inverter.energy_counters.yearly = inverter.energy_counters.monthly

\* ------------------------------------------------------------ start(), stop(), _run_loop
\* One calling thread makes the start() and stop() calls, one after the other.  A loop
\* thread is at "check" (about to test "while self.running"), at "tick" (inside
\* _tick), at "sleep" (inside time.sleep), or has ended: "exited" when the test
\* failed, "crashed" when _tick raised.
Alive(i) == loops[i].pc \in {"check", "tick", "sleep"}

Deliver(payload) == IF Len(sink) < MaxSink THEN Append(sink, payload) ELSE sink

\* start(), first half: the test of self.running, self.running = True, and the
\* creation and start of the thread
StartThread ==
    /\ caller = "idle"
    /\ IF running
       THEN UNCHANGED <<running, thread, loops, caller>>
       ELSE /\ Len(loops) < MaxStarts
            /\ running' = TRUE
            /\ loops' = Append(loops, [pc |-> "check", late |-> 0])
            /\ thread' = Len(loops) + 1
            /\ caller' = "started"
    /\ UNCHANGED <<device, sink, log, timed_out>>
    /\ UNCHANGED txVars

\* start(), second half: the logger call and, in the charger, _send_boot_notification
StartAnnounce ==
    /\ caller = "started"
    /\ log' = "started"
    /\ sink' = IF device = "charger"
               THEN Deliver([messageType |-> "BootNotification", loop |-> thread])
               ELSE sink
    /\ caller' = "idle"
    /\ UNCHANGED <<running, thread, loops, device, timed_out>>
    /\ UNCHANGED txVars

\* stop(), first half: self.running = False
StopSignal ==
    /\ caller = "idle"
    /\ running' = FALSE
    /\ loops' = [i \in DOMAIN loops |-> [loops[i] EXCEPT !.late = 0]]
    /\ caller' = "join"
    /\ timed_out' = FALSE
    /\ UNCHANGED <<thread, device, sink, log>>
    /\ UNCHANGED txVars

\* the message stop() logs after the join
StopMessage(join_timed_out) == "stopped"

\* stop(), second half: self.thread.join(timeout=1) returns, because the thread has
\* ended or because the second has passed while the thread is in _tick or asleep,
\* and the logger is called
StopJoin ==
    /\ caller = "join"
    /\ \E join_timed_out \in BOOLEAN :
          /\ IF thread = 0 THEN ~join_timed_out
             ELSE IF join_timed_out THEN loops[thread].pc \in {"tick", "sleep"}
             ELSE ~Alive(thread)
          /\ timed_out' = join_timed_out
          /\ log' = StopMessage(join_timed_out)
    /\ caller' = "idle"
    /\ UNCHANGED <<running, thread, loops, device, sink>>
    /\ UNCHANGED txVars

\* a loop that never looks at self.running again
LoopConditionAlways == TRUE

\* the condition of the while loop of _run_loop
LoopCondition == running

\* _run_loop of thread i tests its condition
LoopCheck(i) ==
    /\ i \in DOMAIN loops
    /\ loops[i].pc = "check"
    /\ loops' = [loops EXCEPT ![i].pc = IF LoopCondition THEN "tick" ELSE "exited"]
    /\ UNCHANGED <<running, thread, caller, device, sink, log, timed_out>>
    /\ UNCHANGED txVars

TickPayload == IF device = "charger" THEN "ChargerPeriodicData" ELSE "inverterData"

\* a tick that ends while self.running is False is one more tick after the stop
LateTicks(i) == IF running THEN loops[i].late ELSE IF loops[i].late < 2 THEN loops[i].late + 1 ELSE 2

\* _tick of thread i runs to its end and delivers its payload
TickDone(i) ==
    /\ i \in DOMAIN loops
    /\ loops[i].pc = "tick"
    /\ sink' = Deliver([messageType |-> TickPayload, loop |-> i])
    /\ loops' = [loops EXCEPT ![i] = [pc |-> "sleep", late |-> LateTicks(i)]]
    /\ UNCHANGED <<running, thread, caller, device, log, timed_out>>
    /\ UNCHANGED txVars

\* where an exception raised inside _tick leaves the thread of _run_loop
AfterRaise == "crashed"

\* _tick of thread i raises (the sink raises, or a computation of the tick does)
TickRaise(i) ==
    /\ i \in DOMAIN loops
    /\ loops[i].pc = "tick"
    /\ loops' = [loops EXCEPT ![i].pc = AfterRaise]
    /\ UNCHANGED <<running, thread, caller, device, sink, log, timed_out>>
    /\ UNCHANGED txVars

\* time.sleep of thread i returns
LoopWake(i) ==
    /\ i \in DOMAIN loops
    /\ loops[i].pc = "sleep"
    /\ loops' = [loops EXCEPT ![i].pc = "check"]
    /\ UNCHANGED <<running, thread, caller, device, sink, log, timed_out>>
    /\ UNCHANGED txVars

LoopStep(i) == LoopCheck(i) \/ TickDone(i) \/ TickRaise(i) \/ LoopWake(i)

LifeInit == TxInit /\ OtherInit /\ \E d \in {"charger", "inverter"} : Constructed(d)

LifeNext ==
    \/ StartThread
    \/ StartAnnounce
    \/ StopSignal
    \/ StopJoin
    \/ \E i \in 1 .. MaxStarts : LoopCheck(i)
    \/ \E i \in 1 .. MaxStarts : TickDone(i)
    \/ \E i \in 1 .. MaxStarts : TickRaise(i)
    \/ \E i \in 1 .. MaxStarts : LoopWake(i)

SpecLife == LifeInit /\ [][LifeNext]_vars

\* The scheduler runs every loop thread that can take a step: a sleep ends, a tick
\* ends, a runnable thread gets the processor.
SpecLifeFair == SpecLife /\ \A i \in 1 .. MaxStarts : WF_vars(LoopStep(i))

\* ------------------------------------------------------------ claims on the life cycle
InTick == {i \in DOMAIN loops : loops[i].pc = "tick"}

\* C6: at most one loop thread of an emulator is executing a tick at any time, after
\* any sequence of start() and stop() calls.
C6_OneLoopTicking == Cardinality(InTick) <= 1

\* C7: a tick that raises does not end the emulator's loop: while the emulator has
\* not been stopped (self.running is True), the thread start() created is still in
\* its loop, so later ticks occur.
C7_LoopSurvivesTick == (running /\ thread # 0) => Alive(thread)

\* C8: every payload the tick loop of a charger delivers comes after the
\* BootNotification of the start() call that created the loop.
C8_BootFirst ==
    \A j \in DOMAIN sink :
        sink[j].messageType = "ChargerPeriodicData" =>
            \E k \in 1 .. j - 1 :
                sink[k] = [messageType |-> "BootNotification", loop |-> sink[j].loop]

\* C9: once stop() has set self.running to False, every loop thread finishes at most
\* one more tick, and unless start() is called again every loop thread ends.
C9_LoopTerminates ==
    /\ [](\A i \in DOMAIN loops : loops[i].late <= 1)
    /\ (~running ~> (running \/ \A i \in DOMAIN loops : ~Alive(i)))

\* a stop() was made while the loop was running, one tick ended after it, and the
\* loop has left its while loop
C9_Witness ==
    /\ ~running
    /\ caller = "idle"
    /\ \E i \in DOMAIN loops : loops[i].pc = "exited" /\ loops[i].late = 1

\* C10: a stop() whose join timed out with the loop thread still alive does not
\* report the emulator as stopped.
C10_TimeoutReported == (caller = "idle" /\ timed_out) => log # "stopped"

\* ------------------------------------------------------------ the resource manager
\* names adapters are registered under, resource types, the data given to create
\* and the data given to update
AdapterNames == {"rest", "ocpp", "mock"}

ResourceTypes == {"transaction", "charger", "user", "tenant", "site"}

CreateData == {"TestCorp"}

Data == {"TestCorp", "premium"}

\* the adapter objects of the tests: a MockRESTAdapter keeps what it creates under
\* ids "<type>_<id_counter>"; a Mock returns "test_id" from create and raises
\* Exception("Delete failed") from delete
MockRESTAdapter == [kind |-> "MockRESTAdapter", created_resources |-> <<>>, id_counter |-> 1]

FailingAdapter == [kind |-> "Mock", created_resources |-> <<>>, id_counter |-> 1]

AdapterObjects == {MockRESTAdapter, FailingAdapter}

TestId == [type |-> "test", n |-> 0]

AdapterResult(adapter, raised, e, id, data, ok) ==
    [adapter |-> adapter, raised |-> raised, e |-> e, id |-> id, data |-> data, ok |-> ok]

AdapterCreate(adapter, resource_type, data) ==
    IF adapter.kind = "Mock"
    THEN AdapterResult(adapter, "", "", TestId, "", FALSE)
    ELSE LET resource_id == [type |-> resource_type, n |-> adapter.id_counter] IN
         AdapterResult([adapter EXCEPT !.created_resources = (resource_id :> data) @@ @,
                                       !.id_counter = @ + 1],
                       "", "", resource_id, "", FALSE)

AdapterRead(adapter, resource_type, resource_id) ==
    IF adapter.kind = "Mock"
    THEN AdapterResult(adapter, "", "", NoId, "Mock", FALSE)
    ELSE IF resource_id \notin DOMAIN adapter.created_resources
    THEN AdapterResult(adapter, "ValueError", "not found", NoId, "", FALSE)
    ELSE AdapterResult(adapter, "", "", NoId, adapter.created_resources[resource_id], FALSE)

AdapterUpdate(adapter, resource_type, resource_id, data) ==
    IF adapter.kind = "Mock"
    THEN AdapterResult(adapter, "", "", NoId, "Mock", FALSE)
    ELSE IF resource_id \notin DOMAIN adapter.created_resources
    THEN AdapterResult(adapter, "ValueError", "not found", NoId, "", FALSE)
    ELSE AdapterResult([adapter EXCEPT !.created_resources[resource_id] = data],
                       "", "", NoId, data, FALSE)

\* a dict without the key k
Without(d, k) == [x \in DOMAIN d \ {k} |-> d[x]]

AdapterDelete(adapter, resource_type, resource_id) ==
    IF adapter.kind = "Mock"
    THEN AdapterResult(adapter, "Exception", "Delete failed", NoId, "", FALSE)
    ELSE IF resource_id \in DOMAIN adapter.created_resources
    THEN AdapterResult([adapter EXCEPT !.created_resources = Without(@, resource_id)],
                       "", "", NoId, "", TRUE)
    ELSE AdapterResult(adapter, "", "", NoId, "", FALSE)

\* a call an adapter received and the exception it raised
AdapterCall(adapter_name, op, resource_type, resource_id, data, raised) ==
    [adapter |-> adapter_name, op |-> op, resource_type |-> resource_type,
     id |-> resource_id, data |-> data, raised |-> raised]

\* self._adapters[adapter_name] of a method that names an unregistered adapter
KeyError(adapter_name) == AdapterResult(<<>>, "KeyError", adapter_name, NoId, "", FALSE)

\* the tracking entry create appends
Entry(resource_id, data, adapter_name) ==
    [id |-> resource_id, data |-> data, adapter |-> adapter_name]

\* an entry put in front of the list of its type
TrackedFirst(resources, resource_type, entry) ==
    IF resource_type \in DOMAIN resources
    THEN [resources EXCEPT ![resource_type] = <<entry>> \o @]
    ELSE (resource_type :> <<entry>>) @@ resources

\* self._resources after create has appended entry to the list of resource_type
Tracked(resources, resource_type, entry) ==
    IF resource_type \in DOMAIN resources
    THEN [resources EXCEPT ![resource_type] = Append(@, entry)]
    ELSE (resource_type :> <<entry>>) @@ resources

\* register_adapter, of an adapter object not registered before
RegisterAdapter(name, adapter) ==
    /\ name \notin DOMAIN manager.adapters
    /\ manager' = [manager EXCEPT !.adapters = (name :> adapter) @@ @,
                                  !.calls = <<>>,
                                  !.ret = ManagerReturned("register_adapter", "", name, "",
                                                          "", NoId, "", FALSE, <<>>)]

\* create
Create(resource_type, data, adapter_name) ==
    /\ Len(manager.created) < MaxResources
    /\ IF adapter_name \notin DOMAIN manager.adapters
       THEN manager' = [manager EXCEPT
                           !.calls = <<>>,
                           !.ret = ManagerReturned("create", resource_type, adapter_name,
                                                   data, "KeyError", NoId, "", FALSE,
                                                   <<>>)]
       ELSE LET r == AdapterCreate(manager.adapters[adapter_name], resource_type, data)
                entry == Entry(r.id, data, adapter_name)
            IN manager' =
                   [manager EXCEPT
                       !.adapters[adapter_name] = r.adapter,
                       !.resources = Tracked(@, resource_type, entry),
                       !.created = Append(@, [type |-> resource_type, entry |-> entry]),
                       !.calls = <<AdapterCall(adapter_name, "create", resource_type,
                                               r.id, data, "")>>,
                       !.ret = ManagerReturned("create", resource_type, adapter_name, data,
                                               "", r.id, "", FALSE, <<>>)]

\* read, update and delete: the adapter's call and what the method gives back
Forwarded(op, resource_type, resource_id, data, adapter_name) ==
    IF adapter_name \notin DOMAIN manager.adapters THEN KeyError(adapter_name)
    ELSE IF op = "read"
    THEN AdapterRead(manager.adapters[adapter_name], resource_type, resource_id)
    ELSE IF op = "update"
    THEN AdapterUpdate(manager.adapters[adapter_name], resource_type, resource_id, data)
    ELSE AdapterDelete(manager.adapters[adapter_name], resource_type, resource_id)

Forward(op, resource_type, resource_id, data, adapter_name) ==
    LET r == Forwarded(op, resource_type, resource_id, data, adapter_name) IN
    /\ manager.forwards < MaxForwards
    /\ manager' =
        [manager EXCEPT
            !.forwards = @ + 1,
            !.adapters = IF r.raised = "KeyError" THEN @
                         ELSE [@ EXCEPT ![adapter_name] = r.adapter],
            !.calls = IF r.raised = "KeyError" THEN <<>>
                      ELSE <<AdapterCall(adapter_name, op, resource_type, resource_id,
                                         data, r.raised)>>,
            !.ret = ManagerReturned(op, resource_type, adapter_name, data, r.raised,
                                    resource_id, r.data, r.ok, <<>>)]

Read(resource_type, resource_id, adapter_name) ==
    Forward("read", resource_type, resource_id, "", adapter_name)

Update(resource_type, resource_id, data, adapter_name) ==
    Forward("update", resource_type, resource_id, data, adapter_name)

Delete(resource_type, resource_id, adapter_name) ==
    Forward("delete", resource_type, resource_id, "", adapter_name)

\* deletion_order of rollback
deletion_order ==
    << <<"transaction", "emulator">>,
       <<"transaction", "ocpp">>,
       <<"emulator_session", "mqtt_emulator">>,
       <<"ocpp_charger", "emulator">>,
       <<"charger_emulator", "emulator">>,
       <<"charger_emulator", "mqtt_emulator">>,
       <<"inverter_emulator", "emulator">>,
       <<"inverter_emulator", "mqtt_emulator">>,
       <<"charger", "ocpp">>,
       <<"charger", "rest">>,
       <<"inverter", "rest">>,
       <<"user", "rest">>,
       <<"tenant", "rest">> >>

\* list.remove(item): the list without the first element equal to item
RECURSIVE Remove(_, _)
Remove(list, item) ==
    IF list = <<>> THEN <<>>
    ELSE IF Head(list) = item THEN Tail(list)
    ELSE <<Head(list)>> \o Remove(Tail(list), item)

\* self.delete(res_type, item["id"], adapter_name) inside the try of rollback, on
\* the rollback's working state m: the item is removed from tracking when nothing was
\* raised, the failure is appended to errors otherwise
RollbackDelete(m, res_type, item, adapter_name) ==
    IF adapter_name \notin DOMAIN m.adapters
    THEN [m EXCEPT !.errors = Append(@, [res_type |-> res_type, id |-> item.id,
                                         e |-> adapter_name])]
    ELSE LET r == AdapterDelete(m.adapters[adapter_name], res_type, item.id)
             called == [m EXCEPT !.adapters[adapter_name] = r.adapter,
                                 !.calls = Append(@, AdapterCall(adapter_name, "delete",
                                                                 res_type, item.id, "",
                                                                 r.raised))]
         IN IF r.raised = ""
            THEN [called EXCEPT !.resources[res_type] = Remove(@, item)]
            ELSE [called EXCEPT !.errors = Append(@, [res_type |-> res_type,
                                                      id |-> item.id, e |-> r.e])]

\* "for item in reversed(self._resources[res_type])" from the iterator's index on: the
\* iterator ends when its index is outside the list as the list is now
RECURSIVE RollbackItems(_, _, _, _)
RollbackItems(m, res_type, adapter_name, index) ==
    IF index < 1 \/ index > Len(m.resources[res_type]) THEN m
    ELSE RollbackItems(RollbackDelete(m, res_type, m.resources[res_type][index],
                                      adapter_name),
                       res_type, adapter_name, index - 1)

\* the loop of rollback over deletion_order from its k-th pair on
RECURSIVE RollbackFrom(_, _)
RollbackFrom(m, k) ==
    IF k > Len(deletion_order) THEN m
    ELSE LET res_type == deletion_order[k][1]
             adapter_name == deletion_order[k][2]
         IN RollbackFrom(IF res_type \in DOMAIN m.resources
                         THEN RollbackItems(m, res_type, adapter_name,
                                            Len(m.resources[res_type]))
                         ELSE m,
                         k + 1)

\* rollback
Rollback ==
    LET m == RollbackFrom([resources |-> manager.resources, adapters |-> manager.adapters,
                           calls |-> <<>>, errors |-> <<>>], 1)
    IN manager' =
           [manager EXCEPT
               !.adapters = m.adapters,
               !.calls = m.calls,
               !.resources = IF m.errors # <<>> THEN m.resources ELSE <<>>,
               !.ret = ManagerReturned("rollback", "", "", "",
                                       IF m.errors # <<>> THEN "RollbackError" ELSE "",
                                       NoId, "", FALSE, m.errors)]

\* get_resources: the list of one type, or a copy of the whole dict when the type
\* is None or empty
GetResources(resource_type) ==
    IF resource_type # ""
    THEN IF resource_type \in DOMAIN manager.resources
         THEN manager.resources[resource_type] ELSE <<>>
    ELSE manager.resources

\* clear_resources
ClearResources ==
    manager' = [manager EXCEPT !.resources = <<>>,
                               !.calls = <<>>,
                               !.ret = ManagerReturned("clear_resources", "", "", "", "",
                                                       NoId, "", FALSE, <<>>)]

notManager ==
    <<connectors, active_transactions, energy_delivered, timers, tick, nticks, hist,
      outVars, fleet, curve, inverter, reader, lifeVars>>

ResourceNext ==
    \/ \E name \in AdapterNames, adapter \in AdapterObjects :
          RegisterAdapter(name, adapter) /\ UNCHANGED notManager
    \/ \E resource_type \in ResourceTypes, data \in CreateData, adapter_name \in AdapterNames :
          Create(resource_type, data, adapter_name) /\ UNCHANGED notManager
    \/ \E i \in DOMAIN manager.created, adapter_name \in AdapterNames :
          Read(manager.created[i].type, manager.created[i].entry.id, adapter_name)
          /\ UNCHANGED notManager
    \/ \E i \in DOMAIN manager.created, data \in Data, adapter_name \in AdapterNames :
          Update(manager.created[i].type, manager.created[i].entry.id, data, adapter_name)
          /\ UNCHANGED notManager
    \/ \E i \in DOMAIN manager.created, adapter_name \in AdapterNames :
          Delete(manager.created[i].type, manager.created[i].entry.id, adapter_name)
          /\ UNCHANGED notManager
    \/ Rollback /\ UNCHANGED notManager
    \/ ClearResources /\ UNCHANGED notManager

SpecResources == Init /\ [][ResourceNext]_vars

\* ------------------------------------------------------------ claims on the resource
\* manager
\* the step is a rollback
RollbackStep == manager'.ret.op = "rollback"

\* the entries tracked before the step, with their types
TrackedBefore ==
    UNION {{[type |-> t, entry |-> manager.resources[t][k]] :
               k \in DOMAIN manager.resources[t]} : t \in DOMAIN manager.resources}

\* the entries tracked after the step, with their types
TrackedAfter ==
    UNION {{[type |-> t, entry |-> manager'.resources[t][k]] :
               k \in DOMAIN manager'.resources[t]} : t \in DOMAIN manager'.resources}

\* the delete calls the adapters received in the step for the resource x
DeletesOf(x) ==
    {i \in DOMAIN manager'.calls :
        /\ manager'.calls[i].op = "delete"
        /\ manager'.calls[i].resource_type = x.type
        /\ manager'.calls[i].id = x.entry.id}

\* C32: after resources of any types have been created with any registered adapter,
\* a rollback in which no adapter delete raises has called delete for every tracked
\* resource on the adapter that created it, raises nothing and leaves get_resources()
\* empty.
C32_RollbackDeletesAll ==
    [][RollbackStep /\ (\A i \in DOMAIN manager'.calls : manager'.calls[i].raised = "")
        => /\ manager'.ret.raised = ""
           /\ GetResources("")' = <<>>
           /\ \A x \in TrackedBefore :
                 \E i \in DeletesOf(x) : manager'.calls[i].adapter = x.entry.adapter
      ]_vars

\* C33: when an adapter delete raises during a rollback, the rollback still calls
\* delete for every other tracked resource, then raises RollbackError with each
\* failure's message; every resource whose delete raised remains tracked and every
\* resource whose delete succeeded is no longer tracked.
C33_RollbackWithErrors ==
    [][RollbackStep /\ (\E i \in DOMAIN manager'.calls : manager'.calls[i].raised # "")
        => /\ \A x \in TrackedBefore : DeletesOf(x) # {}
           /\ manager'.ret.raised = "RollbackError"
           /\ \A i \in DOMAIN manager'.calls :
                 manager'.calls[i].raised # "" =>
                     \E j \in DOMAIN manager'.ret.errors :
                         manager'.ret.errors[j] =
                             [res_type |-> manager'.calls[i].resource_type,
                              id |-> manager'.calls[i].id, e |-> "Delete failed"]
           /\ \A x \in TrackedBefore :
                 /\ (\E i \in DeletesOf(x) : manager'.calls[i].raised # "")
                        => x \in TrackedAfter
                 /\ (\E i \in DeletesOf(x) : manager'.calls[i].raised = "")
                        => x \notin TrackedAfter
      ]_vars

\* the place of a resource type in the dependency order of the claim: transactions,
\* then emulators and chargers, then users, then tenants; 0 for a type it leaves out
Level(resource_type) ==
    CASE resource_type = "transaction" -> 1
      [] resource_type \in {"emulator_session", "ocpp_charger", "charger_emulator",
                            "inverter_emulator", "charger"} -> 2
      [] resource_type = "user" -> 3
      [] resource_type = "tenant" -> 4
      [] OTHER -> 0

\* before the step, every resource of the type with id a was created before every one
\* with id b
CreatedEarlier(resource_type, a, b) ==
    /\ a # b
    /\ \A p, q \in DOMAIN manager.resources[resource_type] :
          /\ manager.resources[resource_type][p].id = a
          /\ manager.resources[resource_type][q].id = b
          => p < q

\* the deletes of the step are issued in dependency order
InDependencyOrder ==
    \A i, j \in DOMAIN manager'.calls :
        /\ i < j
        /\ Level(manager'.calls[i].resource_type) > 0
        /\ Level(manager'.calls[j].resource_type) > 0
        => Level(manager'.calls[i].resource_type) <= Level(manager'.calls[j].resource_type)

\* C34: a rollback issues its deletes in dependency order (transactions, then
\* emulators and chargers, then users, then tenants), and within one resource type
\* all its deletes happen in reverse creation order.
C34_DeletionOrder ==
    [][RollbackStep
        => /\ InDependencyOrder
           /\ \A i, j \in DOMAIN manager'.calls :
                 /\ i < j
                 /\ manager'.calls[i].resource_type = manager'.calls[j].resource_type
                 => ~CreatedEarlier(manager'.calls[i].resource_type,
                                    manager'.calls[i].id, manager'.calls[j].id)
      ]_vars

\* s holds elements of u in the order of u
RECURSIVE IsSubsequence(_, _)
IsSubsequence(s, u) ==
    IF s = <<>> THEN TRUE
    ELSE IF u = <<>> THEN FALSE
    ELSE IF Head(s) = Head(u) THEN IsSubsequence(Tail(s), Tail(u))
    ELSE IsSubsequence(s, Tail(u))

\* the entries create has made for the type, in creation order
CreatedOf(resource_type) ==
    LET made == SelectSeq(manager.created, LAMBDA c : c.type = resource_type)
    IN [k \in DOMAIN made |-> made[k].entry]

\* the adapters other than the named one are left as they were
OnlyAdapter(adapter_name) ==
    /\ DOMAIN manager'.adapters = DOMAIN manager.adapters
    /\ \A n \in DOMAIN manager.adapters \ {adapter_name} :
          manager'.adapters[n] = manager.adapters[n]

\* C35: create(type, data, adapter_name) calls create(type, data) on exactly the
\* adapter registered under adapter_name, returns the id that adapter returned and
\* appends one entry with that id to the list of the type, so that get_resources(type)
\* lists the created resources in creation order; read and update call the named
\* adapter and leave the tracked resources as they were.
C35_CreateForwards ==
    /\ [](\A t \in ResourceTypes : IsSubsequence(GetResources(t), CreatedOf(t)))
    /\ [][\A t \in ResourceTypes, a \in AdapterNames :
            /\ manager'.ret.resource_type = t
            /\ manager'.ret.adapter = a
            /\ manager'.ret.raised # "KeyError"
            => /\ manager'.ret.op = "create"
                  => /\ a \in DOMAIN manager.adapters
                     /\ manager'.calls =
                            <<AdapterCall(a, "create", t, manager'.ret.id,
                                          manager'.ret.given, "")>>
                     /\ manager'.ret.id =
                            AdapterCreate(manager.adapters[a], t, manager'.ret.given).id
                     /\ OnlyAdapter(a)
                     /\ GetResources(t)' =
                            Append(GetResources(t),
                                   Entry(manager'.ret.id, manager'.ret.given, a))
                     /\ \A u \in ResourceTypes \ {t} : GetResources(u)' = GetResources(u)
               /\ manager'.ret.op \in {"read", "update"}
                  => /\ a \in DOMAIN manager.adapters
                     /\ manager'.calls =
                            <<AdapterCall(a, manager'.ret.op, t, manager'.ret.id,
                                          manager'.ret.given, manager'.ret.raised)>>
                     /\ OnlyAdapter(a)
                     /\ GetResources("")' = GetResources("")
         ]_vars

\* create has appended a second entry to the list of a type, made with another
\* adapter than the first
C35_Witness ==
    /\ manager.ret.op = "create"
    /\ manager.ret.raised = ""
    /\ Len(GetResources(manager.ret.resource_type)) = 2
    /\ GetResources(manager.ret.resource_type)[1].adapter
           # GetResources(manager.ret.resource_type)[2].adapter
    /\ GetResources(manager.ret.resource_type)[2].id = manager.ret.id

====
